---------------------------- MODULE Spec2Model ----------------------------
(***************************************************************************)
(* qvm-sync: a sender (packer/pack.go) walks a directory tree and sends    *)
(* metadata headers; the receiver (packer/unpack.go) compares them with    *)
(* its own tree, asks for the items that differ, and unpacks them.         *)
(*                                                                         *)
(* A file tree is a function from Paths to entries.  Modes follow Go's     *)
(* os.FileMode: the type and the setuid/setgid/sticky flags live in high   *)
(* bits, the permission bits in the low nine, so a mode is the record      *)
(* (kind, special, perm) and "mode & 07777" keeps perm alone.              *)
(*                                                                         *)
(* The receiver of unpack.go neither reads the version header nor removes  *)
(* stale entries; NewReceiver, the deletion set and removeFiles follow     *)
(* section 4.4 of the specification, reportError its section 7.            *)
(***************************************************************************)
EXTENDS Integers, Sequences, FiniteSets, TLC

\* ------------------------------------------------------------------ bounds

MaxMtime == 2
CrcBits == 8
BufCap == 2
MaxSessions == 2

\* ------------------------------------------------------- program constants

Version == 0
FileCrcOff == 0
FileCrcAtimeNsec == 1
FileCrcAtimeNsecMetadata == 2
CrcPolyHigh == 60856

\* ------------------------------------------------------------------- paths

Root == "r"
Cwd == "."
Paths == {"r", "r/a", "r/a/x", "r/b"}

Parent(p) ==
  CASE p = "r" -> Cwd
    [] p = "r/a" -> "r"
    [] p = "r/b" -> "r"
    [] p = "r/a/x" -> "r/a"

\* len(path) of the relative name
PathLen(p) ==
  CASE p = "r" -> 1
    [] p = "r/a" -> 3
    [] p = "r/b" -> 3
    [] p = "r/a/x" -> 5

\* position of a path in the byte-wise order of names (ioutil.ReadDir sorts)
NameRank(p) ==
  CASE p = "r" -> 1
    [] p = "r/a" -> 2
    [] p = "r/a/x" -> 3
    [] p = "r/b" -> 4

RECURSIVE IsUnder(_, _)
IsUnder(p, d) ==
  IF p = Cwd THEN FALSE
  ELSE IF Parent(p) = d THEN TRUE
  ELSE IsUnder(Parent(p), d)

\* ------------------------------------------------------------------- modes

Oct(a, b, c) == a * 64 + b * 8 + c
Perm0700 == Oct(7, 0, 0)
Perm0755 == Oct(7, 5, 5)
Perm0555 == Oct(5, 5, 5)
Perm0644 == Oct(6, 4, 4)
Perm0444 == Oct(4, 4, 4)
Perm0777 == Oct(7, 7, 7)

OwnerWritable(perm) == (perm \div 128) % 2 = 1

\* ----------------------------------------------------------------- entries

\* file contents: empty, and two of the same size
Contents == {<<>>, <<1>>, <<2>>}

\* link targets: "/o" lies outside the receiver's directory, "x" inside
OutTarget == <<47, 111>>
InTarget == <<120>>

NowSec == MaxMtime + 1
NowNsec == MaxMtime + 2

NoEntry ==
  [kind |-> "none", perm |-> 0, special |-> {}, mtime |-> 0, mnsec |-> 0,
   atime |-> 0, ansec |-> 0, data |-> <<>>]

DirEntry(perm, mtime) ==
  [kind |-> "dir", perm |-> perm, special |-> {}, mtime |-> mtime, mnsec |-> 0,
   atime |-> 1, ansec |-> 0, data |-> <<>>]

FileEntry(content, perm, special, mtime, mnsec, ansec) ==
  [kind |-> "regular", perm |-> perm, special |-> special, mtime |-> mtime,
   mnsec |-> mnsec, atime |-> 1, ansec |-> ansec, data |-> content]

LinkEntry(target) ==
  [kind |-> "symlink", perm |-> Perm0777, special |-> {}, mtime |-> 1, mnsec |-> 0,
   atime |-> 1, ansec |-> 0, data |-> target]

PipeEntry ==
  [kind |-> "pipe", perm |-> Perm0644, special |-> {}, mtime |-> 1, mnsec |-> 0,
   atime |-> 1, ansec |-> 0, data |-> <<>>]

\* ------------------------------------------------------------- file system

\* os.Lstat succeeds
Exists(fs, p) == fs[p].kind # "none"

ChildrenOf(fs, d) == {q \in Paths : Parent(q) = d /\ Exists(fs, q)}

\* an entry can be created in or removed from the directory that holds p
ParentWritable(fs, p) ==
  \/ Parent(p) = Cwd
  \/ /\ fs[Parent(p)].kind = "dir"
     /\ OwnerWritable(fs[Parent(p)].perm)

\* the kernel stamps a directory whose list of entries changes
TouchParent(fs, p) ==
  IF Parent(p) = Cwd THEN fs
  ELSE [fs EXCEPT ![Parent(p)].mtime = NowSec, ![Parent(p)].mnsec = NowNsec]

\* a tree is well formed when every entry lies in a directory
WellFormed(fs) ==
  \A p \in Paths :
    (Exists(fs, p) /\ Parent(p) # Cwd) => fs[Parent(p)].kind = "dir"


\* --------------------------------------------------------------------- crc

CrcMask == 2 ^ CrcBits - 1
CrcPoly == CrcPolyHigh \div (2 ^ (16 - CrcBits))

RECURSIVE XorBits(_, _, _)
XorBits(a, b, n) ==
  IF n = 0 THEN 0
  ELSE (((a % 2) + (b % 2)) % 2) + 2 * XorBits(a \div 2, b \div 2, n - 1)

RECURSIVE CrcShift(_, _)
CrcShift(crc, k) ==
  IF k = 0 THEN crc
  ELSE CrcShift(IF crc % 2 = 1 THEN XorBits(crc \div 2, CrcPoly, CrcBits)
                ELSE crc \div 2, k - 1)

RECURSIVE CrcUpdate(_, _)
CrcUpdate(crc, bytes) ==
  IF bytes = <<>> THEN crc
  ELSE CrcUpdate(CrcShift(XorBits(crc, Head(bytes) % (CrcMask + 1), CrcBits), 8),
                 Tail(bytes))

\* the reflected table-driven checksum of hash/crc32, at the width CrcBits
CrcTable == [c \in Contents |-> XorBits(CrcUpdate(CrcMask, c), CrcMask, CrcBits)]

\* CrcFile: 0 for anything but a regular file, and for an empty file
CrcFile(e) ==
  IF e.kind # "regular" THEN 0
  ELSE IF Len(e.data) = 0 THEN 0
  ELSE CrcTable[e.data]

\* ----------------------------------------------------------------- headers

\* stat.Size of a regular file or of a link (the length of its target)
SizeOf(e) == Len(e.data)

newFileHeaderFromStat(path, e) ==
  [path |-> path, nameLen |-> PathLen(path) + 1, kind |-> e.kind,
   special |-> e.special, perm |-> e.perm,
   fileLen |-> IF e.kind = "dir" THEN 0 ELSE SizeOf(e),
   atime |-> e.atime, ansec |-> e.ansec, mtime |-> e.mtime, mnsec |-> e.mnsec]

\* the 32 zero bytes that end the metadata phase decode to a header with NameLen 0
EotHeader ==
  [path |-> "", nameLen |-> 0, kind |-> "none", special |-> {}, perm |-> 0,
   fileLen |-> 0, atime |-> 0, ansec |-> 0, mtime |-> 0, mnsec |-> 0]

\* a test that takes every type but directory and symlink for a regular file
isRegularOrOther(hdr) == hdr.kind \notin {"dir", "symlink"}
isRegular(hdr) == hdr.kind = "regular"
\* a test that takes no header for a symlink
isSymlinkNever(hdr) == FALSE
isSymlink(hdr) == hdr.kind = "symlink"
isDir(hdr) == hdr.kind = "dir"

\* the mode as one value: type bits, flag bits and permission bits
ModeOf(hdr) == <<hdr.kind, hdr.special, hdr.perm>>

\* fileHeader.Eq, the comparison receiveFileMetadata calls
Eq(hdr, other) ==
  /\ hdr.nameLen = other.nameLen
  /\ ModeOf(hdr) = ModeOf(other)
  /\ hdr.fileLen = other.fileLen
  /\ (~(isSymlink(hdr) /\ isSymlink(other)) =>
        /\ hdr.atime = other.atime
        /\ hdr.ansec = other.ansec
        /\ hdr.mtime = other.mtime
        /\ hdr.mnsec = other.mnsec)

\* fileHeader.Diff of types.go leaves the access time out
Diff(hdr, other) ==
  (IF hdr.nameLen # other.nameLen THEN {"NameLen"} ELSE {})
  \cup (IF ModeOf(hdr) # ModeOf(other) THEN {"Mode"} ELSE {})
  \cup (IF hdr.fileLen # other.fileLen THEN {"FileLen"} ELSE {})
  \cup (IF ~(isSymlink(hdr) /\ isSymlink(other)) /\ hdr.mtime # other.mtime
        THEN {"Mtime"} ELSE {})
  \cup (IF ~(isSymlink(hdr) /\ isSymlink(other)) /\ hdr.mnsec # other.mnsec
        THEN {"MtimeNsec"} ELSE {})

\* messages on the two byte streams
VersionMsg(crc) == [t |-> "version", version |-> Version, crcUsage |-> crc]
HdrMsg(h) == [t |-> "hdr", h |-> h]
DataMsg(bytes) == [t |-> "data", bytes |-> bytes]
ResultMsg(code) == [t |-> "result", code |-> code]
ExtMsg(name) == [t |-> "ext", name |-> name]
ListMsg(list) == [t |-> "list", count |-> Len(list), list |-> list]

\* ------------------------------------------------------------- sender walk

\* the entries of directory d in the order ioutil.ReadDir returns them
RECURSIVE SortedPaths(_)
SortedPaths(S) ==
  IF S = {} THEN <<>>
  ELSE LET first == CHOOSE p \in S : \A q \in S : NameRank(p) <= NameRank(q)
       IN <<first>> \o SortedPaths(S \ {first})

\* Sender.osWalk: the paths whose header is written, in order
RECURSIVE osWalk(_, _, _)
RECURSIVE osWalkAll(_, _, _)
\* a walk that does not come back to a directory after its entries
osWalkOnce(tree, ignoreSymlinks, path) ==
  IF ignoreSymlinks /\ tree[path].kind = "symlink" THEN <<>>
  ELSE IF tree[path].kind # "dir" THEN <<path>>
  ELSE <<path>>
       \o osWalkAll(tree, ignoreSymlinks, SortedPaths(ChildrenOf(tree, path)))
osWalk(tree, ignoreSymlinks, path) ==
  IF ignoreSymlinks /\ tree[path].kind = "symlink" THEN <<>>
  ELSE IF tree[path].kind # "dir" THEN <<path>>
  ELSE <<path>>
       \o osWalkAll(tree, ignoreSymlinks, SortedPaths(ChildrenOf(tree, path)))
       \o <<path>>
osWalkAll(tree, ignoreSymlinks, files) ==
  IF files = <<>> THEN <<>>
  ELSE osWalk(tree, ignoreSymlinks, Head(files))
       \o osWalkAll(tree, ignoreSymlinks, Tail(files))

\* a mask that lets every entry into the send list
RequestableAlways(e) == TRUE

\* regularOrSymlink: the mask is zero for regular files and symlinks only
Requestable(e) == e.kind \in {"regular", "symlink"}


\* ------------------------------------------------------------------- state

VARIABLES
  sTree,        \* the sender's tree, fixed during a session
  crcUsage,     \* Options.CrcUsage
  ignoreSymlinks, \* Options.IgnoreSymlinks
  sPc,          \* where Sender.Sync stands
  sPos,         \* how many headers of the walk have been written
  sendList,     \* Sender.sendList
  sBuf,         \* what s.out holds and has not passed on to the transport
  sCode,        \* ErrorCode of the result header last read
  sReq,         \* the request list the sender read
  sK,           \* how many requested items have been replayed
  s2r,          \* transport, sender to receiver
  r2s,          \* transport, receiver to sender
  rPc,          \* where the receiver stands
  rFS,          \* the receiver's tree under its working directory
  outside,      \* does the file outside the working directory still exist
  index,        \* Receiver.index
  requestList,  \* Receiver.requestList
  dirStack,     \* Receiver.dirStack
  lastName,     \* lastName of the running phase
  rK,           \* how many requested items have been unpacked
  deleteSet,    \* paths found at the receiver and not mentioned so far
  session,      \* number of the running session
  rTree0,       \* the receiver's tree when the session began
  drift,        \* what was changed at the receiver before the session
  sLog,         \* everything the sender has written, with the phase it was in
  rLog,         \* what the receiver has done, in order
  uPc,          \* the step a single call stands at; "off" while a session runs
  uHdr,         \* the file header handed to the call
  uWire,        \* the bytes or the local entry handed to the call, or the
                \* bytes it wrote
  uGot,         \* what unMarshallBinary or the receiving function returned
  uBack         \* the bytes marshallBinary wrote for the decoded header

senderVars == <<sPc, sPos, sendList, sBuf, sCode, sReq, sK>>
receiverVars == <<rPc, index, requestList, dirStack, lastName, rK, deleteSet>>
inputVars == <<sTree, crcUsage, ignoreSymlinks, session, rTree0, drift>>
unitVars == <<uPc, uHdr, uWire, uGot, uBack>>
sessionVars == <<sTree, crcUsage, ignoreSymlinks, sPc, sPos, sendList, sBuf, sCode,
                 sReq, sK, s2r, r2s, rPc, rFS, outside, index, requestList,
                 dirStack, lastName, rK, deleteSet, session, rTree0, drift, sLog,
                 rLog>>
vars == <<sTree, crcUsage, ignoreSymlinks, sPc, sPos, sendList, sBuf, sCode, sReq,
          sK, s2r, r2s, rPc, rFS, outside, index, requestList, dirStack, lastName,
          rK, deleteSet, session, rTree0, drift, sLog, rLog,
          uPc, uHdr, uWire, uGot, uBack>>

\* ------------------------------------------------------------------ inputs

Mtimes == 1..MaxMtime

\* regular files the sender may hold
PlainFile == FileEntry(<<1>>, Perm0644, {}, 1, 4, 0)

\* a file its owner may not read
Unreadable == [PlainFile EXCEPT !.perm = 0]

\* regular files the sender may hold
SenderFiles ==
  {PlainFile, [PlainFile EXCEPT !.data = <<>>], [PlainFile EXCEPT !.perm = Perm0444]}

\* regular files the receiver may hold at the start
ReceiverFiles ==
  {PlainFile, [PlainFile EXCEPT !.data = <<2>>, !.mtime = MaxMtime],
   [PlainFile EXCEPT !.perm = Perm0444, !.data = <<2>>, !.mtime = MaxMtime]}

SenderTrees ==
  {[p \in Paths |->
      CASE p = "r" -> DirEntry(rootPerm, 1)
        [] p = "r/a" -> a
        [] p = "r/a/x" -> x
        [] p = "r/b" -> b] :
     rootPerm \in {Perm0755, Perm0555},
     a \in {NoEntry, DirEntry(Perm0755, 1), LinkEntry(InTarget)} \cup SenderFiles,
     x \in {NoEntry, PlainFile},
     b \in {NoEntry, PlainFile, LinkEntry(OutTarget), PipeEntry, Unreadable}}

ReceiverTrees ==
  {[p \in Paths |->
      CASE p = "r" -> root
        [] p = "r/a" -> a
        [] p = "r/a/x" -> x
        [] p = "r/b" -> b] :
     root \in {NoEntry, DirEntry(Perm0755, 1), DirEntry(Perm0555, 1)},
     a \in {NoEntry, DirEntry(Perm0755, 1), LinkEntry(InTarget)} \cup ReceiverFiles,
     x \in {NoEntry, PlainFile, LinkEntry(OutTarget)},
     b \in {NoEntry, PlainFile, LinkEntry(OutTarget)}}

\* what may happen to one regular file of the receiver between two sessions
DriftKinds == {"content", "mtime", "mode", "size", "missing"}
NoDrift == [kind |-> "none", path |-> ""]

Drifts(fs) ==
  {NoDrift}
  \cup {d \in [kind : DriftKinds, path : Paths] :
          /\ fs[d.path].kind = "regular"
          /\ d.kind = "content" => Len(fs[d.path].data) > 0}

Toggled(content) == IF content = <<1>> THEN <<2>> ELSE <<1>>

ApplyDrift(fs, d) ==
  CASE d.kind = "none" -> fs
    [] d.kind = "content" -> [fs EXCEPT ![d.path].data = Toggled(@)]
    [] d.kind = "mtime" -> [fs EXCEPT ![d.path].mtime = (@ % MaxMtime) + 1]
    [] d.kind = "mode" ->
         [fs EXCEPT ![d.path].perm = IF @ = Perm0644 THEN Perm0444 ELSE Perm0644]
    [] d.kind = "size" ->
         [fs EXCEPT ![d.path].data = IF Len(@) = 0 THEN <<1>> ELSE <<>>]
    [] d.kind = "missing" -> TouchParent([fs EXCEPT ![d.path] = NoEntry], d.path)

\* no single call is looked at while sessions run
UnitOff ==
  /\ uPc = "off" /\ uHdr = <<>> /\ uWire = <<>> /\ uGot = <<>> /\ uBack = <<>>

Init ==
  /\ UnitOff
  /\ sTree \in {t \in SenderTrees : WellFormed(t)}
  /\ crcUsage \in {FileCrcOff, FileCrcAtimeNsec, FileCrcAtimeNsecMetadata}
  /\ ignoreSymlinks \in BOOLEAN
  /\ rFS \in {t \in ReceiverTrees : WellFormed(t)}
  /\ rTree0 = rFS
  /\ drift = NoDrift
  /\ outside = TRUE
  /\ session = 1
  /\ sPc = "new" /\ sPos = 0 /\ sendList = <<>> /\ sBuf = <<>> /\ sCode = 0
  /\ sReq = <<>> /\ sK = 0
  /\ s2r = <<>> /\ r2s = <<>>
  /\ rPc = "new" /\ index = 0 /\ requestList = <<>> /\ dirStack = <<>>
  /\ lastName = "" /\ rK = 0 /\ deleteSet = {}
  /\ sLog = <<>> /\ rLog = <<>>


\* ------------------------------------------------------------------ sender

\* bufio.Writer.Write: a full buffer is passed on before the bytes are taken
BufWrite(io, m) ==
  IF Len(io.buf) >= BufCap
  THEN [buf |-> <<m>>, wire |-> io.wire \o io.buf]
  ELSE [buf |-> Append(io.buf, m), wire |-> io.wire]

RECURSIVE BufWriteAll(_, _)
BufWriteAll(io, msgs) ==
  IF msgs = <<>> THEN io ELSE BufWriteAll(BufWrite(io, Head(msgs)), Tail(msgs))

\* a Flush that sends nothing off: what the comment on SnapShim says of
\* snappy.Writer.Flush taken alone
BufFlushKeeps(io) == io

\* BufferedWriter.Flush: SnapShim.Flush closes the compressor and flushes the
\* buffered writer below it, so all that s.out holds reaches the transport
BufFlush(io) == [buf |-> <<>>, wire |-> io.wire \o io.buf]

SenderIO == [buf |-> sBuf, wire |-> s2r]

Logged(phase, msgs) == [i \in 1..Len(msgs) |-> [phase |-> phase, msg |-> msgs[i]]]

Walk == osWalk(sTree, ignoreSymlinks, Root)

\* os.Open of a regular file
Readable(e) == (e.perm \div 256) % 2 = 1

\* CrcFile opens a regular file that is not empty
CrcFileFails(e) == e.kind = "regular" /\ Len(e.data) > 0 /\ ~Readable(e)

\* the header sendItemMetadata builds for the entry info at path under the
\* CRC mode usage
sendItemMetadataHeader(path, info, usage) ==
  LET header == newFileHeaderFromStat(path, info)
  IN IF ~isDir(header)
        /\ (usage = FileCrcAtimeNsec \/ usage = FileCrcAtimeNsecMetadata)
     THEN [header EXCEPT !.ansec = CrcFile(info)]
     ELSE header

\* the header sendItemMetadata writes for path
MetadataHeader(path) == sendItemMetadataHeader(path, sTree[path], crcUsage)

\* a replay header with the checksum in every mode but off
sendItemHeaderAnyCrc(filename, info, usage) ==
  LET header == newFileHeaderFromStat(filename, info)
  IN IF isRegular(header) /\ usage # FileCrcOff
     THEN [header EXCEPT !.ansec = CrcFile(info)]
     ELSE header

\* the header sendItem builds for the entry info at filename under the CRC
\* mode usage
sendItemHeader(filename, info, usage) ==
  LET header == newFileHeaderFromStat(filename, info)
  IN IF isRegular(header) /\ usage = FileCrcAtimeNsec
     THEN [header EXCEPT !.ansec = CrcFile(info)]
     ELSE header

\* the header sendItem writes for filename
ItemHeader(filename) == sendItemHeader(filename, sTree[filename], crcUsage)

\* a replay that writes headers and no payload
ItemMessagesHeaderOnly(filename) == <<HdrMsg(ItemHeader(filename))>>

\* what sendItem writes: the header, then the link target or the file's bytes
ItemMessages(filename) ==
  LET e == sTree[filename]
  IN <<HdrMsg(ItemHeader(filename))>>
     \o (IF /\ e.kind \in {"symlink", "regular"}
            /\ Len(e.data) > 0
            /\ (e.kind = "regular" => Readable(e))
         THEN <<DataMsg(e.data)>> ELSE <<>>)

\* NewSender: the version header goes out unbuffered
NewSender ==
  /\ sPc = "new"
  /\ s2r' = Append(s2r, VersionMsg(crcUsage))
  /\ sLog' = sLog \o Logged("new", <<VersionMsg(crcUsage)>>)
  /\ sPc' = "walk"
  /\ UNCHANGED <<sPos, sendList, sBuf, sCode, sReq, sK, r2s, rFS, outside, rLog>>
  /\ UNCHANGED receiverVars /\ UNCHANGED inputVars /\ UNCHANGED unitVars

\* one call of sendItemMetadata from osWalk
sendItemMetadata ==
  /\ sPc = "walk"
  /\ sPos < Len(Walk)
  /\ LET path == Walk[sPos + 1]
         io == BufWrite(SenderIO, HdrMsg(MetadataHeader(path)))
     IN IF /\ crcUsage \in {FileCrcAtimeNsec, FileCrcAtimeNsecMetadata}
           /\ CrcFileFails(sTree[path])
        THEN /\ sPc' = "error"
             /\ UNCHANGED <<sBuf, s2r, sLog, sendList, sPos>>
        ELSE /\ sBuf' = io.buf
             /\ s2r' = io.wire
             /\ sLog' = sLog \o Logged("walk", <<HdrMsg(MetadataHeader(path))>>)
             /\ sendList' = IF Requestable(sTree[path])
                            THEN Append(sendList, path) ELSE sendList
             /\ sPos' = sPos + 1
             /\ UNCHANGED sPc
  /\ UNCHANGED <<sCode, sReq, sK, r2s, rFS, outside, rLog>>
  /\ UNCHANGED receiverVars /\ UNCHANGED inputVars /\ UNCHANGED unitVars

\* the end of transmitDirectory: the 32 zero bytes, then Flush
transmitDirectory ==
  /\ sPc = "walk"
  /\ sPos = Len(Walk)
  /\ LET io == BufFlush(BufWrite(SenderIO, HdrMsg(EotHeader)))
     IN /\ sBuf' = io.buf
        /\ s2r' = io.wire
  /\ sLog' = sLog \o Logged("walk", <<HdrMsg(EotHeader)>>)
  /\ sPc' = "wait1"
  /\ UNCHANGED <<sPos, sendList, sCode, sReq, sK, r2s, rFS, outside, rLog>>
  /\ UNCHANGED receiverVars /\ UNCHANGED inputVars /\ UNCHANGED unitVars

\* waitForResult, first read: the result header
waitForResult ==
  /\ sPc \in {"wait1", "wait3"}
  /\ r2s # <<>>
  /\ Head(r2s).t = "result"
  /\ sCode' = Head(r2s).code
  /\ r2s' = Tail(r2s)
  /\ sPc' = IF sPc = "wait1" THEN "wait1ext" ELSE "wait3ext"
  /\ UNCHANGED <<sPos, sendList, sBuf, sReq, sK, s2r, rFS, outside, sLog, rLog>>
  /\ UNCHANGED receiverVars /\ UNCHANGED inputVars /\ UNCHANGED unitVars

\* a wait that does not look at the error code
AfterWaitAnyCode(pc, code) == IF pc = "wait1ext" THEN "list" ELSE "done"

\* where Sync goes when waitForResult returns
AfterWait(pc, code) ==
  IF code # 0 THEN "error"
  ELSE IF pc = "wait1ext" THEN "list"
  ELSE "done"

\* waitForResult, second read: the result extension, then the error code
waitForResultExt ==
  /\ sPc \in {"wait1ext", "wait3ext"}
  /\ r2s # <<>>
  /\ Head(r2s).t = "ext"
  /\ r2s' = Tail(r2s)
  /\ sPc' = AfterWait(sPc, sCode)
  /\ UNCHANGED <<sPos, sendList, sBuf, sCode, sReq, sK, s2r, rFS, outside, sLog, rLog>>
  /\ UNCHANGED receiverVars /\ UNCHANGED inputVars /\ UNCHANGED unitVars

\* handleFileList: the count read is larger than the send list
listTooLong(listLen, list) == listLen > Len(list)

\* an index check that lets the index one past the end through
indexPastEnd(idx, list) == idx > Len(list)

\* sendItem: the index, counted from 0, is not one of the send list
indexOutOfRange(idx, list) == idx >= Len(list)

\* the loop of handleFileList over the indices read: the indices an item was
\* written for, and whether the loop came to its end
RECURSIVE replay(_, _)
replay(indices, list) ==
  IF indices = <<>> THEN [ok |-> TRUE, sent |-> <<>>]
  ELSE IF indexOutOfRange(Head(indices), list) THEN [ok |-> FALSE, sent |-> <<>>]
  ELSE LET rest == replay(Tail(indices), list)
       IN [ok |-> rest.ok, sent |-> <<Head(indices)>> \o rest.sent]

\* handleFileList up to the loop: the count and the indices are read
handleFileList ==
  /\ sPc = "list"
  /\ r2s # <<>>
  /\ Head(r2s).t = "list"
  /\ r2s' = Tail(r2s)
  /\ IF listTooLong(Head(r2s).count, sendList)
     THEN sPc' = "error" /\ UNCHANGED sReq
     ELSE sPc' = "replay" /\ sReq' = SubSeq(Head(r2s).list, 1, Head(r2s).count)
  /\ sK' = 0
  /\ UNCHANGED <<sPos, sendList, sBuf, sCode, s2r, rFS, outside, sLog, rLog>>
  /\ UNCHANGED receiverVars /\ UNCHANGED inputVars /\ UNCHANGED unitVars

\* one turn of the loop of handleFileList: sendItem(index)
sendItem ==
  /\ sPc = "replay"
  /\ sK < Len(sReq)
  /\ LET idx == sReq[sK + 1]
     IN IF indexOutOfRange(idx, sendList)
        THEN /\ sPc' = "error"
             /\ UNCHANGED <<sBuf, s2r, sLog, sK>>
        ELSE LET e == sTree[sendList[idx + 1]]
                 msgs == ItemMessages(sendList[idx + 1])
                 io == BufWriteAll(SenderIO, msgs)
             IN IF crcUsage = FileCrcAtimeNsec /\ CrcFileFails(e)
                THEN /\ sPc' = "error"
                     /\ UNCHANGED <<sBuf, s2r, sLog, sK>>
                ELSE /\ sBuf' = io.buf
                     /\ s2r' = io.wire
                     /\ sLog' = sLog \o Logged("replay", msgs)
                     /\ sPc' = IF e.kind = "regular" /\ ~Readable(e)
                               THEN "error" ELSE "replay"
                     /\ sK' = IF e.kind = "regular" /\ ~Readable(e)
                              THEN sK ELSE sK + 1
  /\ UNCHANGED <<sPos, sendList, sCode, sReq, r2s, rFS, outside, rLog>>
  /\ UNCHANGED receiverVars /\ UNCHANGED inputVars /\ UNCHANGED unitVars

\* the end of handleFileList: Flush
handleFileListFlush ==
  /\ sPc = "replay"
  /\ sK = Len(sReq)
  /\ LET io == BufFlush(SenderIO)
     IN /\ sBuf' = io.buf
        /\ s2r' = io.wire
  /\ sPc' = "wait3"
  /\ UNCHANGED <<sPos, sendList, sCode, sReq, sK, r2s, rFS, outside, sLog, rLog>>
  /\ UNCHANGED receiverVars /\ UNCHANGED inputVars /\ UNCHANGED unitVars

ReceiverGone == rPc \in {"done", "failed", "reported"}
SenderGone == sPc \in {"done", "error"}

\* a read of the sender meets the end of the stream: the phase fails
SenderEOF ==
  /\ sPc \in {"wait1", "wait1ext", "list", "wait3", "wait3ext"}
  /\ r2s = <<>>
  /\ ReceiverGone
  /\ sPc' = "error"
  /\ UNCHANGED <<sPos, sendList, sBuf, sCode, sReq, sK, s2r, r2s, rFS, outside,
                 sLog, rLog>>
  /\ UNCHANGED receiverVars /\ UNCHANGED inputVars /\ UNCHANGED unitVars


\* ------------------------------------------------- receiver: file system

Last(seq) == seq[Len(seq)]
Failed(fs) == [ok |-> FALSE, fs |-> fs]
Done(fs) == [ok |-> TRUE, fs |-> fs]

\* os.Remove: unlink, or rmdir of an empty directory
osRemove(fs, path) ==
  IF ~ParentWritable(fs, path) THEN Failed(fs)
  ELSE IF fs[path].kind = "dir" /\ ChildrenOf(fs, path) # {} THEN Failed(fs)
  ELSE Done(TouchParent([fs EXCEPT ![path] = NoEntry], path))

RemoveIfExist(fs, path) ==
  IF ~Exists(fs, path) THEN Done(fs) ELSE osRemove(fs, path)

NewEntry(kind, perm, data) ==
  [kind |-> kind, perm |-> perm, special |-> {}, mtime |-> NowSec,
   mnsec |-> NowNsec, atime |-> NowSec, ansec |-> NowNsec, data |-> data]

\* a new entry at path: its directory must exist and be writable, path be free
Create(fs, path, entry) ==
  IF Exists(fs, path) \/ ~ParentWritable(fs, path) THEN Failed(fs)
  ELSE Done(TouchParent([fs EXCEPT ![path] = entry], path))

\* a mkdir that gives every directory the mode 0755
osMkdir0755(fs, path, perm) == Create(fs, path, NewEntry("dir", Perm0755, <<>>))
osMkdir(fs, path, perm) == Create(fs, path, NewEntry("dir", perm, <<>>))
osSymlink(fs, content, path) == Create(fs, path, NewEntry("symlink", Perm0777, content))
\* the tempfile, filled by CopyFile, linked to path
osLink(fs, content, path) == Create(fs, path, NewEntry("regular", Perm0700 - 64, content))

\* os.Chmod(path, mode & 07777), then os.Chtimes(path, atime, mtime)
fixTimesAndPerms(fs, hdr) ==
  IF ~Exists(fs, hdr.path) THEN Failed(fs)
  ELSE Done([fs EXCEPT ![hdr.path].perm = hdr.perm,
                       ![hdr.path].special = {},
                       ![hdr.path].atime = hdr.atime,
                       ![hdr.path].ansec = hdr.ansec,
                       ![hdr.path].mtime = hdr.mtime,
                       ![hdr.path].mnsec = hdr.mnsec])

\* ------------------------------------------------------ receiver: metadata

\* a visit that is always taken for the first
visitDirAlways(stack, path) == TRUE

\* visitDir: TRUE for a push (first visit), FALSE for a pop
visitDir(stack, path) ==
  IF Len(stack) = 0 THEN TRUE
  ELSE Last(stack) # path

StackAfter(stack, path) ==
  IF visitDir(stack, path) THEN Append(stack, path)
  ELSE SubSeq(stack, 1, Len(stack) - 1)

receiveDirMetadata(fs, stack, header) ==
  IF visitDir(stack, header.path)
  THEN IF Exists(fs, header.path)
       THEN IF fs[header.path].kind = "dir" THEN Done(fs)
            ELSE LET removed == RemoveIfExist(fs, header.path)
                 IN IF ~removed.ok THEN removed
                    ELSE osMkdir(removed.fs, header.path, Perm0700)
       ELSE osMkdir(fs, header.path, Perm0700)
  ELSE fixTimesAndPerms(fs, header)

\* receiveFileMetadata: is the index scheduled
Requested(fs, hdr) ==
  IF ~Exists(fs, hdr.path) THEN TRUE
  ELSE ~Eq(newFileHeaderFromStat(hdr.path, fs[hdr.path]), hdr)

\* a request that schedules the index twice
requestTwice(list, idx) == Append(Append(list, idx), idx)

\* request appends r.index
request(list, idx) == Append(list, idx)

\* a listing that finds nothing
SnapshotNothing(fs, d) == {}

\* the snapshot of one directory level
Snapshot(fs, d) == ChildrenOf(fs, d)

\* the deletion set after one header
DeleteSetAfter(del, fs, stack, hdr) ==
  (del \ {hdr.path})
  \cup (IF isDir(hdr) /\ visitDir(stack, hdr.path) /\ fs[hdr.path].kind = "dir"
        THEN Snapshot(fs, hdr.path) ELSE {})

\* sendStatusAndCrc
sendStatusAndCrc(code, lastFilename) ==
  <<ResultMsg(code)>>
  \o (IF lastFilename = "" THEN <<>> ELSE <<ExtMsg(lastFilename)>>)

Event(ev, path) == [ev |-> ev, path |-> path]

\* NewReceiver: the version header is read, the working directory listed
NewReceiver ==
  /\ rPc = "new"
  /\ s2r # <<>>
  /\ Head(s2r).t = "version"
  /\ s2r' = Tail(s2r)
  /\ IF Head(s2r).version = Version
     THEN rPc' = "meta" /\ deleteSet' = Snapshot(rFS, Cwd)
     ELSE rPc' = "failed" /\ UNCHANGED deleteSet
  /\ UNCHANGED <<r2s, rFS, outside, index, requestList, dirStack, lastName, rK,
                 sLog, rLog>>
  /\ UNCHANGED senderVars /\ UNCHANGED inputVars /\ UNCHANGED unitVars

\* one turn of the loop of ReceiveMetadata: processItemMetadata
processItemMetadata ==
  /\ rPc = "meta"
  /\ s2r # <<>>
  /\ Head(s2r).t = "hdr"
  /\ Head(s2r).h.nameLen # 0
  /\ LET hdr == Head(s2r).h
     IN /\ s2r' = Tail(s2r)
        /\ IF isDir(hdr)
           THEN LET res == receiveDirMetadata(rFS, dirStack, hdr)
                IN /\ rFS' = res.fs
                   /\ dirStack' = StackAfter(dirStack, hdr.path)
                   /\ rPc' = IF res.ok THEN "meta" ELSE "failed"
                   /\ lastName' = IF res.ok THEN hdr.path ELSE lastName
                   /\ UNCHANGED <<index, requestList>>
           ELSE IF isSymlink(hdr) \/ isRegular(hdr)
           THEN /\ requestList' = IF Requested(rFS, hdr)
                                  THEN request(requestList, index)
                                  ELSE requestList
                /\ index' = index + 1
                /\ lastName' = hdr.path
                /\ UNCHANGED <<rFS, dirStack, rPc>>
           ELSE /\ rPc' = "failed"
                /\ UNCHANGED <<rFS, dirStack, index, requestList, lastName>>
        /\ deleteSet' = DeleteSetAfter(deleteSet, rFS, dirStack, hdr)
        /\ rLog' = Append(rLog, Event("hdr", hdr.path))
  /\ UNCHANGED <<r2s, outside, rK, sLog>>
  /\ UNCHANGED senderVars /\ UNCHANGED inputVars /\ UNCHANGED unitVars

\* the end of ReceiveMetadata: the end-of-transfer marker, then the ack
ReceiveMetadata ==
  /\ rPc = "meta"
  /\ s2r # <<>>
  /\ Head(s2r).t = "hdr"
  /\ Head(s2r).h.nameLen = 0
  /\ s2r' = Tail(s2r)
  /\ r2s' = r2s \o sendStatusAndCrc(0, lastName)
  /\ rLog' = Append(rLog, Event("ack1", lastName))
  /\ rPc' = "request"
  /\ UNCHANGED <<rFS, outside, index, requestList, dirStack, lastName, rK,
                 deleteSet, sLog>>
  /\ UNCHANGED senderVars /\ UNCHANGED inputVars /\ UNCHANGED unitVars

RequestFiles ==
  /\ rPc = "request"
  /\ r2s' = Append(r2s, ListMsg(requestList))
  /\ rLog' = Append(rLog, Event("list", ""))
  /\ rPc' = "content"
  /\ lastName' = ""
  /\ rK' = 0
  /\ UNCHANGED <<s2r, rFS, outside, index, requestList, dirStack, deleteSet, sLog>>
  /\ UNCHANGED senderVars /\ UNCHANGED inputVars /\ UNCHANGED unitVars


\* ------------------------------------------------------- receiver: content

\* a header, and the content it announces, can be read
ItemReady ==
  /\ s2r # <<>>
  /\ Head(s2r).t = "hdr"
  /\ \/ Head(s2r).h.fileLen = 0
     \/ isDir(Head(s2r).h)
     \/ Len(s2r) >= 2 /\ s2r[2].t = "data"

HasData(hdr) == ~isDir(hdr) /\ hdr.fileLen > 0

receiveRegularFileFullData(fs, hdr, content) ==
  LET removed == RemoveIfExist(fs, hdr.path)
  IN IF ~removed.ok THEN removed
     ELSE LET linked == osLink(removed.fs, content, hdr.path)
          IN IF ~linked.ok THEN linked
             ELSE fixTimesAndPerms(linked.fs, hdr)

\* the result of RemoveIfExist is dropped
receiveSymlinkFullData(fs, hdr, content) ==
  osSymlink(RemoveIfExist(fs, hdr.path).fs, content, hdr.path)

\* the body of the loop of ReceiveFullData after the header is read: a
\* header that is neither a regular file nor a symlink leaves err nil
receiveFullDataItem(fs, hdr, content) ==
  IF isRegular(hdr) THEN receiveRegularFileFullData(fs, hdr, content)
  ELSE IF isSymlink(hdr) THEN receiveSymlinkFullData(fs, hdr, content)
  ELSE Done(fs)

\* a loop that takes the request list for empty
NoItemsLeft(list, k) == FALSE

\* the loop over r.requestList has entries left
ItemsLeft(list, k) == k < Len(list)

\* one turn of the loop of ReceiveFullData
receiveItem ==
  /\ rPc = "content"
  /\ ItemsLeft(requestList, rK)
  /\ ItemReady
  /\ LET hdr == Head(s2r).h
         content == IF HasData(hdr) THEN s2r[2].bytes ELSE <<>>
         res == receiveFullDataItem(rFS, hdr, content)
     IN /\ s2r' = IF HasData(hdr) THEN Tail(Tail(s2r)) ELSE Tail(s2r)
        /\ rFS' = res.fs
        /\ rPc' = IF res.ok THEN "content" ELSE "failed"
        /\ lastName' = IF res.ok THEN hdr.path ELSE lastName
        /\ rK' = IF res.ok THEN rK + 1 ELSE rK
        /\ rLog' = Append(rLog, Event(IF res.ok THEN "item" ELSE "itemfail", hdr.path))
  /\ UNCHANGED <<r2s, outside, index, requestList, dirStack, deleteSet, sLog>>
  /\ UNCHANGED senderVars /\ UNCHANGED inputVars /\ UNCHANGED unitVars

\* the end of ReceiveFullData: the second ack
ReceiveFullData ==
  /\ rPc = "content"
  /\ ~ItemsLeft(requestList, rK)
  /\ r2s' = r2s \o sendStatusAndCrc(0, lastName)
  /\ rLog' = Append(rLog, Event("ack2", lastName))
  /\ rPc' = "delete"
  /\ UNCHANGED <<s2r, rFS, outside, index, requestList, dirStack, lastName, rK,
                 deleteSet, sLog>>
  /\ UNCHANGED senderVars /\ UNCHANGED inputVars /\ UNCHANGED unitVars

\* ------------------------------------------------------ receiver: deletion

\* a tree can be emptied when each directory holding entries is writable
Removable(fs, p) ==
  /\ ParentWritable(fs, p)
  /\ \A d \in Paths :
       (d = p \/ IsUnder(d, p)) /\ fs[d].kind = "dir" /\ ChildrenOf(fs, d) # {}
         => OwnerWritable(fs[d].perm)

\* os.RemoveAll: the entry and all below it; a symbolic link is unlinked
RemoveAll(fs, p) ==
  IF ~Exists(fs, p) THEN Done(fs)
  ELSE IF ~Removable(fs, p) THEN Failed(fs)
  ELSE Done(TouchParent(
         [q \in Paths |-> IF q = p \/ IsUnder(q, p) THEN NoEntry ELSE fs[q]], p))

\* a removal that goes through symbolic links
OutsideAfterFollowingLinks(fs, p, out) ==
  out /\ ~\E q \in Paths :
            /\ q = p \/ IsUnder(q, p)
            /\ fs[q].kind = "symlink" /\ fs[q].data = OutTarget

\* what the removal of p does to the file outside the working directory:
\* a symbolic link is unlinked, what it points to is left alone
OutsideAfter(fs, p, out) == out

RECURSIVE RemoveEach(_, _)
RemoveEach(fs, paths) ==
  IF Len(paths) = 0 THEN fs
  ELSE RemoveEach(RemoveAll(fs, Head(paths)).fs, Tail(paths))

RECURSIVE OutsideEach(_, _, _)
OutsideEach(fs, paths, out) ==
  IF Len(paths) = 0 THEN out
  ELSE OutsideEach(RemoveAll(fs, Head(paths)).fs, Tail(paths),
                   IF Exists(fs, Head(paths)) /\ Removable(fs, Head(paths))
                   THEN OutsideAfter(fs, Head(paths), out) ELSE out)

\* the stale entries are removed after the content phase
removeFiles ==
  /\ rPc = "delete"
  /\ LET stale == SortedPaths(deleteSet)
     IN /\ rFS' = RemoveEach(rFS, stale)
        /\ outside' = OutsideEach(rFS, stale, outside)
        /\ rLog' = rLog \o [i \in 1..Len(stale) |-> Event("remove", stale[i])]
  /\ rPc' = "done"
  /\ UNCHANGED <<s2r, r2s, index, requestList, dirStack, lastName, rK,
                 deleteSet, sLog>>
  /\ UNCHANGED senderVars /\ UNCHANGED inputVars /\ UNCHANGED unitVars

\* a read at end of input: log.Fatalf in main
ReceiverEOF ==
  /\ SenderGone
  /\ \/ rPc \in {"new", "meta"} /\ s2r = <<>>
     \/ rPc = "content" /\ ItemsLeft(requestList, rK) /\ ~ItemReady
  /\ rPc' = "failed"
  /\ UNCHANGED <<s2r, r2s, rFS, outside, index, requestList, dirStack, lastName,
                 rK, deleteSet, sLog, rLog>>
  /\ UNCHANGED senderVars /\ UNCHANGED inputVars /\ UNCHANGED unitVars

\* a fatal error is signalled upstream in a result header
ErrorCodes == {17, 22}

reportError ==
  /\ rPc = "failed"
  /\ \E code \in ErrorCodes : r2s' = r2s \o sendStatusAndCrc(code, lastName)
  /\ rLog' = Append(rLog, Event("error", lastName))
  /\ rPc' = "reported"
  /\ UNCHANGED <<s2r, rFS, outside, index, requestList, dirStack, lastName, rK,
                 deleteSet, sLog>>
  /\ UNCHANGED senderVars /\ UNCHANGED inputVars /\ UNCHANGED unitVars

\* ---------------------------------------------------------------- sessions

\* the same source is synchronised again into the tree the session left
Restart ==
  /\ sPc = "done" /\ rPc = "done"
  /\ session < MaxSessions
  /\ session' = session + 1
  /\ \E d \in Drifts(rFS) :
       /\ drift' = d
       /\ rFS' = ApplyDrift(rFS, d)
       /\ rTree0' = ApplyDrift(rFS, d)
  /\ sPc' = "new" /\ rPc' = "new"
  /\ sPos' = 0 /\ sendList' = <<>> /\ sBuf' = <<>> /\ sCode' = 0
  /\ sReq' = <<>> /\ sK' = 0
  /\ s2r' = <<>> /\ r2s' = <<>>
  /\ index' = 0 /\ requestList' = <<>> /\ dirStack' = <<>>
  /\ lastName' = "" /\ rK' = 0 /\ deleteSet' = {}
  /\ sLog' = <<>> /\ rLog' = <<>>
  /\ UNCHANGED <<sTree, crcUsage, ignoreSymlinks, outside>>
  /\ UNCHANGED unitVars

Next ==
  \/ NewSender
  \/ sendItemMetadata
  \/ transmitDirectory
  \/ waitForResult
  \/ waitForResultExt
  \/ handleFileList
  \/ sendItem
  \/ handleFileListFlush
  \/ SenderEOF
  \/ NewReceiver
  \/ processItemMetadata
  \/ ReceiveMetadata
  \/ RequestFiles
  \/ receiveItem
  \/ ReceiveFullData
  \/ removeFiles
  \/ ReceiverEOF
  \/ reportError
  \/ Restart

Spec == Init /\ [][Next]_vars


\* -------------------------------------------------------------- wire format

MaxPathLength == 16384

\* an unsigned integer of the wire is a sequence of 16-bit limbs, the low one
\* first: two limbs for uint32, four for uint64
Limb == 256 * 256
U32(n) == <<n % Limb, n \div Limb>>
U64(n) == <<n % Limb, n \div Limb, 0, 0>>

\* binary.LittleEndian: the bytes of the limbs, the low byte first
RECURSIVE PutLimbs(_)
PutLimbs(w) ==
  IF w = <<>> THEN <<>>
  ELSE <<Head(w) % 256, Head(w) \div 256>> \o PutLimbs(Tail(w))

GetLimbs(b) == [i \in 1..(Len(b) \div 2) |-> b[2 * i - 1] + 256 * b[2 * i]]

\* binary.Write of fileHeaderData: seven fields, 32 bytes, no padding
binaryWrite(data) ==
  PutLimbs(data.NameLen) \o PutLimbs(data.Mode) \o PutLimbs(data.FileLen)
  \o PutLimbs(data.Atime) \o PutLimbs(data.AtimeNsec)
  \o PutLimbs(data.Mtime) \o PutLimbs(data.MtimeNsec)

\* binary.Read of fileHeaderData from 32 bytes
binaryRead(b) ==
  [NameLen |-> GetLimbs(SubSeq(b, 1, 4)),
   Mode |-> GetLimbs(SubSeq(b, 5, 8)),
   FileLen |-> GetLimbs(SubSeq(b, 9, 16)),
   Atime |-> GetLimbs(SubSeq(b, 17, 20)),
   AtimeNsec |-> GetLimbs(SubSeq(b, 21, 24)),
   Mtime |-> GetLimbs(SubSeq(b, 25, 28)),
   MtimeNsec |-> GetLimbs(SubSeq(b, 29, 32))]

\* WritePath: the path and a zero byte, nothing for the empty path
WritePath(path) == IF Len(path) # 0 THEN path \o <<0>> ELSE <<>>

\* ReadPath: path read from in, with the number of bytes taken from in
ReadPath(in, length) ==
  IF length[2] > 0 \/ length[1] > MaxPathLength - 1
  THEN [ok |-> FALSE, path |-> <<>>, read |-> 0]
  ELSE IF length[1] = 0
  THEN [ok |-> TRUE, path |-> <<>>, read |-> 0]
  ELSE IF Len(in) < length[1]
  THEN [ok |-> FALSE, path |-> <<>>, read |-> Len(in)]
  ELSE IF in[length[1]] # 0
  THEN [ok |-> FALSE, path |-> <<>>, read |-> length[1]]
  ELSE [ok |-> TRUE, path |-> SubSeq(in, 1, length[1] - 1), read |-> length[1]]

\* fileHeader.marshallBinary: what is written to out
marshallBinary(hdr) == binaryWrite(hdr.Data) \o WritePath(hdr.path)

\* unMarshallBinary: the header, or the error, and the bytes taken from reader
unMarshallBinary(reader) ==
  IF Len(reader) < 32
  THEN [ok |-> FALSE, hdr |-> <<>>, read |-> Len(reader)]
  ELSE LET data == binaryRead(SubSeq(reader, 1, 32))
           name == ReadPath(SubSeq(reader, 33, Len(reader)), data.NameLen)
       IN [ok |-> name.ok,
           hdr |-> IF name.ok THEN [Data |-> data, path |-> name.path] ELSE <<>>,
           read |-> 32 + name.read]


\* --------------------------------------------------------------- byte limits

\* the product of w and a factor below 2^15, modulo 2^64
RECURSIVE Scale(_, _, _)
Scale(w, k, carry) ==
  IF w = <<>> THEN <<>>
  ELSE <<(Head(w) * k + carry) % Limb>>
       \o Scale(Tail(w), k, (Head(w) * k + carry) \div Limb)

\* uint64 addition: the carry out of the highest limb is lost
RECURSIVE AddLimbs(_, _, _)
AddLimbs(a, b, carry) ==
  IF a = <<>> THEN <<>>
  ELSE <<(Head(a) + Head(b) + carry) % Limb>>
       \o AddLimbs(Tail(a), Tail(b), (Head(a) + Head(b) + carry) \div Limb)

U64Add(a, b) == AddLimbs(a, b, 0)

\* uint64 subtraction, which wraps around below zero
U64Sub(a, b) == AddLimbs(a, [i \in 1..Len(b) |-> Limb - 1 - b[i]], 1)

\* a > b for unsigned integers of the same width
U64Gt(a, b) ==
  \E i \in 1..Len(a) : a[i] > b[i] /\ \A j \in (i + 1)..Len(a) : a[j] = b[j]

\* MaxTransfer = 1e12
MaxTransfer == Scale(Scale(U64(1000000), 1000, 0), 1000, 0)

\* the counters of a Receiver as NewReceiver leaves them
ZeroReceiver ==
  [byteLimit |-> U64(0), totalBytes |-> U64(0), index |-> 0, requestList |-> <<>>]

\* a check that also turns down a length of exactly MaxTransfer
countBytesStrict(r, length, update) ==
  IF U64Gt(length, MaxTransfer) \/ length = MaxTransfer
  THEN [ok |-> FALSE, r |-> r]
  ELSE [ok |-> TRUE,
        r |-> IF update THEN [r EXCEPT !.totalBytes = U64Add(r.totalBytes, length)]
              ELSE r]

\* Receiver.countBytes
countBytes(r, length, update) ==
  IF U64Gt(length, MaxTransfer)
  THEN [ok |-> FALSE, r |-> r]
  ELSE IF r.byteLimit # U64(0)
          /\ U64Gt(r.totalBytes, U64Sub(r.byteLimit, length))
  THEN [ok |-> FALSE, r |-> r]
  ELSE [ok |-> TRUE,
        r |-> IF update THEN [r EXCEPT !.totalBytes = U64Add(r.totalBytes, length)]
              ELSE r]

\* CopyFile: the bytes taken from input, and whether size bytes were there
CopyFile(input, size) ==
  IF size[2] = 0 /\ size[3] = 0 /\ size[4] = 0 /\ size[1] <= Len(input)
  THEN [ok |-> TRUE, read |-> size[1]]
  ELSE [ok |-> FALSE, read |-> Len(input)]

\* receiveFileMetadata for a path that does not exist at the receiver: the
\* size check, the request, and the deferred r.index++
receiveFileMetadataSizes(r, hdr) ==
  LET counted == countBytes(r, hdr.Data.FileLen, FALSE)
  IN IF ~counted.ok
     THEN [err |-> "too large", read |-> 0, created |-> FALSE,
           r |-> [r EXCEPT !.index = r.index + 1]]
     ELSE [err |-> "none", read |-> 0, created |-> FALSE,
           r |-> [counted.r EXCEPT !.requestList = request(r.requestList, r.index),
                                   !.index = r.index + 1]]

\* receiveRegularFileFullData in an empty directory: the size check, then the
\* tempfile, then CopyFile from in
receiveRegularFileFullDataSizes(r, hdr, in) ==
  LET counted == countBytes(r, hdr.Data.FileLen, TRUE)
      copied == CopyFile(in, hdr.Data.FileLen)
  IN IF ~counted.ok
     THEN [err |-> "too large", read |-> 0, created |-> FALSE, r |-> r]
     ELSE IF ~copied.ok
     THEN [err |-> "copy", read |-> copied.read, created |-> TRUE, r |-> counted.r]
     ELSE [err |-> "none", read |-> copied.read, created |-> TRUE, r |-> counted.r]


\* ------------------------------------------------------------- command line

CompressionOff == 0
CompressionSnappy == 1
DefaultVerbosity == 3

\* packer.DefaultOptions
DefaultOptions ==
  [Verbosity |-> DefaultVerbosity, CrcUsage |-> FileCrcAtimeNsecMetadata,
   Compression |-> CompressionSnappy, IgnoreSymlinks |-> FALSE]

\* the values of the flags -n, -v and -i as flag.Bool and flag.Uint define them
FlagDefaults == [n |-> FALSE, v |-> DefaultVerbosity, i |-> FALSE]

\* the number a -v argument stands for
ParseUint(str) ==
  CASE str = "0" -> 0 [] str = "1" -> 1 [] str = "2" -> 2 [] str = "3" -> 3
    [] str = "4" -> 4 [] str = "5" -> 5 [] OTHER -> -1

\* flag.Parse: flags are taken from the front of the arguments up to the
\* first argument that is no flag; what is left are the arguments of NArg
RECURSIVE flagParse(_, _)
flagParse(args, flags) ==
  IF args = <<>> THEN [ok |-> TRUE, flags |-> flags, rest |-> <<>>]
  ELSE IF Head(args) = "-n" THEN flagParse(Tail(args), [flags EXCEPT !.n = TRUE])
  ELSE IF Head(args) = "-i" THEN flagParse(Tail(args), [flags EXCEPT !.i = TRUE])
  ELSE IF Head(args) = "-v"
  THEN IF Len(args) < 2 \/ ParseUint(args[2]) < 0
       THEN [ok |-> FALSE, flags |-> flags, rest |-> <<>>]
       ELSE flagParse(Tail(Tail(args)), [flags EXCEPT !.v = ParseUint(args[2])])
  ELSE [ok |-> TRUE, flags |-> flags, rest |-> args]

\* a main that reads its flags after flag.Parse and takes the first
\* argument that is no flag for the directory
senderMainParsed(osArgs) ==
  LET parsed == flagParse(Tail(osArgs), FlagDefaults)
  IN IF ~parsed.ok THEN [exit |-> 2, opts |-> DefaultOptions, dir |-> ""]
     ELSE IF Len(parsed.rest) < 1 THEN [exit |-> 1, opts |-> DefaultOptions, dir |-> ""]
     ELSE [exit |-> 0,
           opts |-> [DefaultOptions EXCEPT
                       !.Compression = IF parsed.flags.n THEN CompressionOff ELSE @,
                       !.IgnoreSymlinks = IF parsed.flags.i THEN TRUE ELSE @,
                       !.Verbosity = parsed.flags.v],
           dir |-> parsed.rest[1]]

\* main of qsync-send: the options the Sender is made with and the directory
\* handed to Sync. The flags are read before flag.Parse has run, and the
\* directory is os.Args[1].
senderMain(osArgs) ==
  LET read == FlagDefaults
      opts == [DefaultOptions EXCEPT
                 !.Compression = IF read.n THEN CompressionOff ELSE @,
                 !.IgnoreSymlinks = IF read.i THEN TRUE ELSE @,
                 !.Verbosity = read.v]
      parsed == flagParse(Tail(osArgs), FlagDefaults)
  IN IF ~parsed.ok THEN [exit |-> 2, opts |-> opts, dir |-> ""]
     ELSE IF Len(parsed.rest) < 1 THEN [exit |-> 1, opts |-> opts, dir |-> ""]
     ELSE [exit |-> 0, opts |-> opts, dir |-> osArgs[2]]


\* -------------------------------------------------------------- single calls

\* the headers and byte streams single calls are made with
Name(n) == [i \in 1..n |-> 97]

AllOnes32 == <<Limb - 1, Limb - 1>>
AllOnes64 == <<Limb - 1, Limb - 1, Limb - 1, Limb - 1>>

TestModes == {U32(33188), U32(41471), <<16877, 1>>}
TestLens == {U64(0), U64(12), <<4660, 22136, 37035, 52719>>, AllOnes64}
TestStamps ==
  {[Atime |-> U32(1), AtimeNsec |-> U32(2), Mtime |-> U32(3), MtimeNsec |-> <<4, 5>>],
   [Atime |-> AllOnes32, AtimeNsec |-> <<57005, 49374>>, Mtime |-> U32(0),
    MtimeNsec |-> AllOnes32]}

HeaderData(nameLen, mode, fileLen, stamp) ==
  [NameLen |-> nameLen, Mode |-> mode, FileLen |-> fileLen,
   Atime |-> stamp.Atime, AtimeNsec |-> stamp.AtimeNsec,
   Mtime |-> stamp.Mtime, MtimeNsec |-> stamp.MtimeNsec]

PathLens == {1, 2, 5, MaxPathLength - 2, MaxPathLength - 1}

\* headers as newFileHeaderFromStat builds them: NameLen is len(path) + 1
TestHeaders ==
  {[Data |-> HeaderData(U32(n + 1), m, l, st), path |-> Name(n)] :
     n \in PathLens, m \in TestModes, l \in TestLens, st \in TestStamps}

NameLens ==
  {U32(1), U32(2), U32(MaxPathLength - 1), U32(MaxPathLength),
   U32(MaxPathLength + 1), <<1, 1>>, AllOnes32}

\* the bytes that follow the header in a stream: as many as the header
\* announces and the stream can hold, ended by the byte last
NameBytes(nameLen, last) ==
  LET n == IF nameLen[2] > 0 \/ nameLen[1] > MaxPathLength + 1
           THEN MaxPathLength + 1 ELSE nameLen[1]
  IN Name(n - 1) \o <<last>>

\* streams that begin with a header followed by a name, and 32-byte blocks
\* whose NameLen is 0
TestStreams ==
  {binaryWrite(HeaderData(nl, U32(33188), l, st)) \o NameBytes(nl, last) :
     nl \in NameLens, l \in {U64(12)}, st \in TestStamps, last \in {0, 97}}
  \cup {binaryWrite(HeaderData(U32(0), m, l, st)) :
          m \in TestModes, l \in TestLens, st \in TestStamps}

\* file lengths up to MaxTransfer, and file lengths above it
LensWithin ==
  {U64(0), U64(2), U64(3), U64Sub(MaxTransfer, U64(1)), MaxTransfer,
   [MaxTransfer EXCEPT ![1] = Limb - 1, ![3] = MaxTransfer[3] - 1]}
LensAbove ==
  {U64Add(MaxTransfer, U64(1)), [MaxTransfer EXCEPT ![2] = MaxTransfer[2] + 1],
   [MaxTransfer EXCEPT ![3] = MaxTransfer[3] + 1], <<0, 0, 0, 1>>, AllOnes64}

\* headers of a regular file of mode 0644 with these lengths
LenHeaders ==
  {[Data |-> HeaderData(U32(2), U32(33188), l, st), path |-> Name(1)] :
     l \in LensWithin \cup LensAbove, st \in TestStamps}

\* what the sender's stream holds behind such a header
Payloads == {<<>>, <<7, 7, 7>>}

\* command lines: up to two options, then the directory or nothing
OptionArgs == {<<"-n">>, <<"-i">>, <<"-v", "5">>, <<"-v", "0">>}
CommandLines ==
  {<<"qsync-send">> \o o1 \o o2 \o d :
     o1 \in OptionArgs \cup {<<>>}, o2 \in OptionArgs \cup {<<>>},
     d \in {<<"dir">>, <<>>}}

\* a file of the receiver next to the sender's: the same, or with another
\* access time, or with another modification time
LocalTwins(e) ==
  {[e EXCEPT !.atime = @ + da, !.ansec = @ + dan, !.mtime = @ + dm] :
     da \in {0, 1}, dan \in {0, 1}, dm \in {0, 1}}

\* the receiver's tree with entry e at r/a
TreeWith(e) ==
  [p \in Paths |-> IF p = Root THEN DirEntry(Perm0755, 1)
                   ELSE IF p = "r/a" THEN e ELSE NoEntry]

\* true nanoseconds of an access time
TestNsecs == {0, 9}

\* entries sendItemMetadata and sendItem may meet, with their access times
StatEntries ==
  {[e EXCEPT !.ansec = n] :
     e \in {DirEntry(Perm0755, 1), LinkEntry(InTarget), PipeEntry, PlainFile,
            [PlainFile EXCEPT !.data = <<>>], [PlainFile EXCEPT !.data = <<2>>],
            Unreadable},
     n \in TestNsecs}

CrcUsages == {FileCrcOff, FileCrcAtimeNsec, FileCrcAtimeNsecMetadata}

\* send lists, and the records a receiver may answer them with: a count
\* and the indices that follow it
SendLists == {<<>>, <<"r/a">>, <<"r/a", "r/b">>}

RequestRecords ==
  UNION {[count : {n}, list : [1..n -> 0..3]] : n \in 0..3}

\* payloads of a content item, and what may arrive of one: any part of it,
\* or all of it and the byte that follows
ItemPayloads == {<<>>, <<1>>, <<1, 2>>}
Arriving(payload) ==
  {SubSeq(payload \o <<3>>, 1, n) : n \in 0..(Len(payload) + 1)}

\* what the receiver may hold where the file is to go: nothing, a file, a
\* directory that is empty or not, in a directory it may or may not write to
TargetTrees ==
  {fs \in {[TreeWith(e) EXCEPT ![Root].perm = rootPerm, !["r/a/x"] = x] :
             rootPerm \in {Perm0755, Perm0555},
             e \in {NoEntry, [PlainFile EXCEPT !.data = <<2>>],
                    DirEntry(Perm0755, 1)},
             x \in {NoEntry, PlainFile}} :
     WellFormed(fs)}

\* what the launcher may find: its effective uid, the account "user" and
\* the file named on its command line
LauncherEnvs ==
  [euid : {0, 1000},
   user : [exists : BOOLEAN, uid : {0, 1000}, gid : {0, 1000}],
   binary : {"regular", "dir", "none"}]

\* names a sender may put on the wire: "r", "r/a", "../o", "/o" and
\* "r/../../o"
WireNames ==
  {<<114>>, <<114, 47, 97>>, <<46, 46, 47, 111>>, <<47, 111>>,
   <<114, 47, 46, 46, 47, 46, 46, 47, 111>>}

\* no session runs while single calls are looked at
SessionOff ==
  /\ sTree = [p \in Paths |-> NoEntry] /\ rFS = [p \in Paths |-> NoEntry]
  /\ rTree0 = [p \in Paths |-> NoEntry]
  /\ crcUsage = FileCrcOff /\ ignoreSymlinks = FALSE
  /\ drift = NoDrift /\ outside = TRUE /\ session = 1
  /\ sPc = "off" /\ sPos = 0 /\ sendList = <<>> /\ sBuf = <<>> /\ sCode = 0
  /\ sReq = <<>> /\ sK = 0
  /\ s2r = <<>> /\ r2s = <<>>
  /\ rPc = "off" /\ index = 0 /\ requestList = <<>> /\ dirStack = <<>>
  /\ lastName = "" /\ rK = 0 /\ deleteSet = {}
  /\ sLog = <<>> /\ rLog = <<>>

UnitInit ==
  /\ SessionOff
  /\ uGot = <<>> /\ uBack = <<>>
  /\ \/ uPc = "encode" /\ uHdr \in TestHeaders /\ uWire = <<>>
     \/ uPc = "decode" /\ uWire \in TestStreams /\ uHdr = <<>>
     \/ uPc = "metadata" /\ uHdr \in LenHeaders /\ uWire = <<>>
     \/ uPc = "content" /\ uHdr \in LenHeaders /\ uWire \in Payloads
     \/ uPc = "args" /\ uWire \in CommandLines /\ uHdr = <<>>
     \/ uPc = "stat" /\ uWire \in StatEntries /\ uHdr \in [usage : CrcUsages]
     \/ uPc = "request" /\ uHdr \in SendLists /\ uWire \in RequestRecords
     \/ /\ uPc = "file"
        /\ uWire \in UNION {Arriving(c) : c \in ItemPayloads}
        /\ \E c \in ItemPayloads, fs \in TargetTrees :
             /\ uWire \in Arriving(c)
             /\ uHdr = [hdr |-> newFileHeaderFromStat("r/a", [PlainFile EXCEPT !.data = c]),
                        tree |-> fs, sent |-> uWire]
     \/ uPc = "launch" /\ uHdr \in LauncherEnvs /\ uWire = <<>>
     \/ /\ uPc = "name" /\ uHdr \in [kind : {"dir", "regular"}]
        /\ \E name \in WireNames : uWire = WritePath(name)
     \/ /\ uPc = "perms"
        /\ \E e \in {PlainFile, DirEntry(Perm0755, 1)},
              bits \in SUBSET {"setuid", "setgid", "sticky"} :
             /\ uWire = [e EXCEPT !.special = bits]
             /\ uHdr = newFileHeaderFromStat("r/a", uWire)
     \/ /\ uPc = "phase0" /\ uWire = <<>>
        /\ uHdr \in [snappy : BOOLEAN, broken : BOOLEAN, headers : 1..3]
     \/ /\ uPc = "item"
        /\ \E e \in StatEntries :
             /\ uHdr = newFileHeaderFromStat("r/a", e)
             /\ uWire = IF e.kind \in {"regular", "symlink"} THEN e.data ELSE <<>>
     \/ /\ uPc = "compare"
        /\ \E e \in SenderFiles :
             /\ uHdr = newFileHeaderFromStat("r/a", e)
             /\ uWire \in LocalTwins(e)

\* a call of marshallBinary: of the header given, or of the header decoded
marshallBinaryCall ==
  /\ \/ /\ uPc = "encode"
        /\ uWire' = marshallBinary(uHdr)
        /\ uPc' = "reparse"
        /\ UNCHANGED <<uHdr, uGot, uBack>>
     \/ /\ uPc = "reencode"
        /\ uBack' = marshallBinary(uGot.hdr)
        /\ uPc' = "reencoded"
        /\ UNCHANGED <<uHdr, uWire, uGot>>
  /\ UNCHANGED sessionVars

\* a call of unMarshallBinary: on the stream given, or on the bytes encoded
unMarshallBinaryCall ==
  /\ \/ /\ uPc = "decode"
        /\ uGot' = unMarshallBinary(uWire)
        /\ uPc' = IF unMarshallBinary(uWire).ok THEN "reencode" ELSE "rejected"
        /\ UNCHANGED <<uHdr, uWire, uBack>>
     \/ /\ uPc = "reparse"
        /\ uGot' = unMarshallBinary(uWire)
        /\ uPc' = "parsed"
        /\ UNCHANGED <<uHdr, uWire, uBack>>
  /\ UNCHANGED sessionVars

\* a call of receiveFileMetadata on a new Receiver
receiveFileMetadataCall ==
  /\ uPc = "metadata"
  /\ uGot' = receiveFileMetadataSizes(ZeroReceiver, uHdr)
  /\ uPc' = "checked"
  /\ UNCHANGED <<uHdr, uWire, uBack>>
  /\ UNCHANGED sessionVars

\* a call of receiveRegularFileFullData on a new Receiver
receiveRegularFileFullDataCall ==
  /\ uPc = "content"
  /\ uGot' = receiveRegularFileFullDataSizes(ZeroReceiver, uHdr, uWire)
  /\ uPc' = "received"
  /\ UNCHANGED <<uHdr, uWire, uBack>>
  /\ UNCHANGED sessionVars

\* a run of the sender's main up to the call of Sync
senderMainCall ==
  /\ uPc = "args"
  /\ uGot' = senderMain(uWire)
  /\ uPc' = "started"
  /\ UNCHANGED <<uHdr, uWire, uBack>>
  /\ UNCHANGED sessionVars

\* the comparison of receiveFileMetadata for a file that is there: is the
\* index scheduled, and what fileHeader.Diff of types.go would report
receiveFileMetadataCompare ==
  /\ uPc = "compare"
  /\ uGot' = [requested |-> Requested(TreeWith(uWire), uHdr),
              diff |-> Diff(newFileHeaderFromStat(uHdr.path, uWire), uHdr)]
  /\ uPc' = "compared"
  /\ UNCHANGED <<uHdr, uWire, uBack>>
  /\ UNCHANGED sessionVars

\* sendItemMetadata for one entry, and sendItem for it where it can be
\* requested: the headers written, or the error of CrcFile
sendItemHeadersCall ==
  /\ uPc = "stat"
  /\ uGot' =
       [metadata |->
          IF uHdr.usage # FileCrcOff /\ CrcFileFails(uWire)
          THEN <<>>
          ELSE <<sendItemMetadataHeader("r/a", uWire, uHdr.usage)>>,
        content |->
          IF \/ ~Requestable(uWire)
             \/ uHdr.usage = FileCrcAtimeNsec /\ CrcFileFails(uWire)
          THEN <<>>
          ELSE <<sendItemHeader("r/a", uWire, uHdr.usage)>>]
  /\ uPc' = "sent"
  /\ UNCHANGED <<uHdr, uWire, uBack>>
  /\ UNCHANGED sessionVars

\* one turn of the loop of ReceiveFullData in a directory that holds nothing
receiveFullDataItemCall ==
  /\ uPc = "item"
  /\ uGot' = receiveFullDataItem(TreeWith(NoEntry), uHdr, uWire)
  /\ uPc' = "unpacked"
  /\ UNCHANGED <<uHdr, uWire, uBack>>
  /\ UNCHANGED sessionVars

\* handleFileList on a send list and a request record: how many indices
\* were read, for which an item was written, and whether phase 2 went well
handleFileListCall ==
  /\ uPc = "request"
  /\ uGot' = IF listTooLong(uWire.count, uHdr)
             THEN [ok |-> FALSE, read |-> 0, sent |-> <<>>]
             ELSE LET done == replay(uWire.list, uHdr)
                  IN [ok |-> done.ok, read |-> uWire.count, sent |-> done.sent]
  /\ uPc' = "replayed"
  /\ UNCHANGED <<uHdr, uWire, uBack>>
  /\ UNCHANGED sessionVars

\* a copy loop that stops one byte short
CopyLoopEndsEarly(size) == size <= 1

\* CopyFile: the loop runs while size > 0
CopyLoopEnds(size) == size <= 0

\* a cleanup that is not run
osRemoveTempNever(temp) == temp

\* the deferred os.Remove(fdOut.Name()): the tempfile is unlinked
osRemoveTemp(temp) == [temp EXCEPT !.there = FALSE]

\* receiveRegularFileFullData, step by step. Its start: the size check and
\* ioutil.TempFile(".", "qvm-*"), which may fail
ioutilTempFile ==
  /\ uPc = "file"
  /\ IF ~countBytes(ZeroReceiver, U64(uHdr.hdr.fileLen), TRUE).ok
     THEN /\ uGot' = [fs |-> uHdr.tree, err |-> "size"]
          /\ uPc' = "returned" /\ UNCHANGED uBack
     ELSE \/ /\ uGot' = [fs |-> uHdr.tree, err |-> "tempfile"]
             /\ uPc' = "returned" /\ UNCHANGED uBack
          \/ /\ uGot' = [fs |-> uHdr.tree, err |-> "none"]
             /\ uBack' = [there |-> TRUE, data |-> <<>>]
             /\ uPc' = "copy"
  /\ UNCHANGED <<uHdr, uWire>>
  /\ UNCHANGED sessionVars

\* one turn of the loop of CopyFile: some of the bytes wanted are read and
\* written to the tempfile; the end of the input is an error
CopyFileChunk ==
  /\ uPc = "copy"
  /\ LET size == uHdr.hdr.fileLen - Len(uBack.data)
     IN IF CopyLoopEnds(size)
        THEN uPc' = "remove" /\ UNCHANGED <<uWire, uBack, uGot>>
        ELSE IF uWire = <<>>
        THEN /\ uPc' = "cleanup" /\ uGot' = [uGot EXCEPT !.err = "copy"]
             /\ UNCHANGED <<uWire, uBack>>
        ELSE \E n \in 1..size :
               /\ n <= Len(uWire)
               /\ uBack' = [uBack EXCEPT !.data = @ \o SubSeq(uWire, 1, n)]
               /\ uWire' = SubSeq(uWire, n + 1, Len(uWire))
               /\ UNCHANGED <<uPc, uGot>>
  /\ UNCHANGED uHdr
  /\ UNCHANGED sessionVars

\* RemoveIfExist(hdr.path)
removeOldEntry ==
  /\ uPc = "remove"
  /\ LET removed == RemoveIfExist(uGot.fs, uHdr.hdr.path)
     IN IF removed.ok
        THEN uGot' = [uGot EXCEPT !.fs = removed.fs] /\ uPc' = "link"
        ELSE uGot' = [uGot EXCEPT !.err = "remove"] /\ uPc' = "cleanup"
  /\ UNCHANGED <<uHdr, uWire, uBack>>
  /\ UNCHANGED sessionVars

\* os.Link(fdOut.Name(), hdr.path)
linkTempFile ==
  /\ uPc = "link"
  /\ LET linked == osLink(uGot.fs, uBack.data, uHdr.hdr.path)
     IN IF linked.ok
        THEN uGot' = [uGot EXCEPT !.fs = linked.fs] /\ uPc' = "fix"
        ELSE uGot' = [uGot EXCEPT !.err = "link"] /\ uPc' = "cleanup"
  /\ UNCHANGED <<uHdr, uWire, uBack>>
  /\ UNCHANGED sessionVars

\* return fixTimesAndPerms(hdr), where chmod or chtimes may fail
fixLinkedFile ==
  /\ uPc = "fix"
  /\ \/ LET fixed == fixTimesAndPerms(uGot.fs, uHdr.hdr)
        IN uGot' = [fs |-> fixed.fs, err |-> IF fixed.ok THEN "none" ELSE "fix"]
     \/ uGot' = [uGot EXCEPT !.err = "fix"]
  /\ uPc' = "cleanup"
  /\ UNCHANGED <<uHdr, uWire, uBack>>
  /\ UNCHANGED sessionVars

\* the deferred calls run when the function returns
deferredRemove ==
  /\ uPc = "cleanup"
  /\ uBack' = osRemoveTemp(uBack)
  /\ uPc' = "returned"
  /\ UNCHANGED <<uHdr, uWire, uGot>>
  /\ UNCHANGED sessionVars

\* --------------------------------------------- writers over a transport

\* the writers of NewConfigurableWriter with nothing written
NewConfigurableWriter(useSnappy) ==
  [snappy |-> useSnappy, pending |-> <<>>, buf |-> <<>>, bufErr |-> FALSE,
   wire |-> <<>>, lost |-> FALSE]

Wrote(w) == [w |-> w, err |-> FALSE]
WriteFailed(w) == [w |-> w, err |-> TRUE]

\* the buffer is handed to the transport, whose write fails when broken; the
\* bufio.Writer keeps the error
bufioPass(w, broken, then) ==
  IF broken THEN WriteFailed([w EXCEPT !.bufErr = TRUE, !.lost = TRUE])
  ELSE Wrote([w EXCEPT !.wire = @ \o w.buf, !.buf = then])

\* bufio.Writer.Write: after an error no more data is accepted
bufioWrite(w, m, broken) ==
  IF w.bufErr THEN WriteFailed(w)
  ELSE IF Len(w.buf) >= BufCap THEN bufioPass(w, broken, <<m>>)
  ELSE Wrote([w EXCEPT !.buf = Append(@, m)])

\* bufio.Writer.Flush
bufioFlush(w, broken) ==
  IF w.bufErr THEN WriteFailed(w)
  ELSE IF w.buf = <<>> THEN Wrote(w)
  ELSE bufioPass(w, broken, <<>>)

\* ConfigurableWriter.Write: to the compressor, which keeps the bytes until
\* it is flushed, or to the buffered writer
outWrite(w, m, broken) ==
  IF w.snappy THEN Wrote([w EXCEPT !.pending = Append(@, m)])
  ELSE bufioWrite(w, m, broken)

\* ConfigurableWriter.Flush: the Flush of the buffered writer, or
\* SnapShim.Flush, which flushes and closes the compressor, returns their
\* errors, and calls s.out.Flush() without looking at what it returns
outFlush(w, broken) ==
  IF ~w.snappy THEN bufioFlush(w, broken)
  ELSE LET snap == IF w.pending = <<>> THEN Wrote(w)
                   ELSE bufioWrite([w EXCEPT !.pending = <<>>],
                                   [t |-> "chunk", of |-> w.pending], broken)
       IN IF snap.err THEN snap
          ELSE Wrote(bufioFlush(snap.w, broken).w)

\* the calls of sendItemMetadata in osWalk: header.marshallBinary(s.out),
\* whose error is not looked at
RECURSIVE sendHeaders(_, _, _)
sendHeaders(w, n, broken) ==
  IF n = 0 THEN w
  ELSE sendHeaders(outWrite(w, [t |-> "hdr", n |-> n], broken).w, n - 1, broken)

\* transmitDirectory: the walk, the 32 zero bytes, the Flush
transmitDirectoryOver(w, n, broken) ==
  LET eod == outWrite(sendHeaders(w, n, broken), [t |-> "eod"], broken)
  IN IF eod.err THEN eod ELSE outFlush(eod.w, broken)

\* Sync up to its first wait on writers whose transport may be broken
transmitDirectoryCall ==
  /\ uPc = "phase0"
  /\ LET sent == transmitDirectoryOver(NewConfigurableWriter(uHdr.snappy),
                                       uHdr.headers, uHdr.broken)
     IN uGot' = [err |-> IF sent.err THEN "phase 0 send error" ELSE "none",
                 waits |-> ~sent.err, w |-> sent.w]
  /\ uPc' = "transmitted"
  /\ UNCHANGED <<uHdr, uWire, uBack>>
  /\ UNCHANGED sessionVars

\* ------------------------------------------------------------ the launcher

\* a test that takes no account for an alias of root
rootAliasNever(uid, euid) == FALSE

\* execJailed: the uid of the account is the effective uid
rootAlias(uid, euid) == uid = euid

\* execJailed returns err
Returns(err) ==
  /\ uGot' = [uGot EXCEPT !.err = err]
  /\ uPc' = IF uBack.defers = <<>> THEN "exited" ELSE "unwind"

\* the launcher goes on to the next step, step being done
GoesOn(step, next) ==
  /\ uGot' = [uGot EXCEPT !.steps = Append(@, step)]
  /\ uPc' = next

\* execJailed up to the directories: the effective uid, the account, the
\* alias of root, the binary
execJailedChecks ==
  /\ uPc = "launch"
  /\ uBack' = [dirs |-> <<>>, file |-> "none", mode |-> 0, mounted |-> FALSE,
               defers |-> <<>>, child |-> <<>>]
  /\ LET failed(done, err) == uGot' = [steps |-> done, err |-> err] /\ uPc' = "exited"
     IN IF uHdr.euid # 0 THEN failed(<<>>, "root")
        ELSE IF ~uHdr.user.exists THEN failed(<<"euid">>, "lookup")
        ELSE IF rootAlias(uHdr.user.uid, uHdr.euid)
        THEN failed(<<"euid", "user">>, "alias")
        ELSE IF uHdr.binary # "regular"
        THEN failed(<<"euid", "user", "alias">>, "binary")
        ELSE /\ uGot' = [steps |-> <<"euid", "user", "alias", "binary">>, err |-> "none"]
             /\ uPc' = "setup"
  /\ UNCHANGED <<uHdr, uWire>>
  /\ UNCHANGED sessionVars

\* setupDir, called for the base directory and then for the jail: MkdirAll,
\* Chown, Chdir, each of which may fail
setupDir ==
  /\ uPc = "setup"
  /\ \/ Returns("mkdir") /\ UNCHANGED uBack
     \/ /\ Returns("chown")
        /\ uBack' = [uBack EXCEPT !.dirs = Append(@, [owner |-> 0])]
     \/ /\ Returns("chdir")
        /\ uBack' = [uBack EXCEPT !.dirs = Append(@, [owner |-> uHdr.user.uid])]
     \/ /\ GoesOn("dir", IF Len(uBack.dirs) = 1 THEN "place" ELSE "setup")
        /\ uBack' = [uBack EXCEPT !.dirs = Append(@, [owner |-> uHdr.user.uid])]
  /\ UNCHANGED <<uHdr, uWire>>
  /\ UNCHANGED sessionVars

\* os.Link, and copyFile when the link fails: the source may not open, the
\* destination may not be created, the copy may fail after it was created.
\* The removal is deferred once the binary is in place
placeBinary ==
  /\ uPc = "place"
  /\ \/ /\ GoesOn("placed", "chmod")
        /\ \E how \in {"linked", "copied"} :
             uBack' = [uBack EXCEPT !.file = how, !.defers = <<"remove">>]
     \/ Returns("copy") /\ UNCHANGED uBack
     \/ Returns("copy") /\ uBack' = [uBack EXCEPT !.file = "partial"]
  /\ UNCHANGED <<uHdr, uWire>>
  /\ UNCHANGED sessionVars

\* os.Chmod(newPath, 0755)
chmodBinary ==
  /\ uPc = "chmod"
  /\ \/ GoesOn("chmod", "chdir") /\ uBack' = [uBack EXCEPT !.mode = Perm0755]
     \/ Returns("chmod") /\ UNCHANGED uBack
  /\ UNCHANGED <<uHdr, uWire>>
  /\ UNCHANGED sessionVars

\* os.Chdir(destRoot)
chdirRoot ==
  /\ uPc = "chdir"
  /\ \/ GoesOn("chdir", "mount")
     \/ Returns("chdir")
  /\ UNCHANGED <<uHdr, uWire, uBack>>
  /\ UNCHANGED sessionVars

\* syscall.Mount(".", ".", MS_BIND ...); the unmount is deferred after it
mountBind ==
  /\ uPc = "mount"
  /\ \/ /\ GoesOn("mount", "run")
        /\ uBack' = [uBack EXCEPT !.mounted = TRUE, !.defers = Append(@, "unmount")]
     \/ Returns("mount") /\ UNCHANGED uBack
  /\ UNCHANGED <<uHdr, uWire>>
  /\ UNCHANGED sessionVars

\* cmd.Run: the child may not start; started, it runs in the jail with the
\* credential of the account, and ends well or not
cmdRun ==
  /\ uPc = "run"
  /\ \/ Returns("run") /\ UNCHANGED uBack
     \/ /\ \E err \in {"none", "exit"} :
             uGot' = [steps |-> Append(uGot.steps, "child"), err |-> err]
        /\ uPc' = "unwind"
        /\ uBack' = [uBack EXCEPT !.child =
                       <<[chroot |-> "jail", uid |-> uHdr.user.uid,
                          gid |-> uHdr.user.gid]>>]
  /\ UNCHANGED <<uHdr, uWire>>
  /\ UNCHANGED sessionVars

\* the deferred functions run last in, first out; the calls in them are
\* taken to succeed
runDeferred ==
  /\ uPc = "unwind"
  /\ IF uBack.defers = <<>>
     THEN uPc' = "exited" /\ UNCHANGED <<uGot, uBack>>
     ELSE LET f == uBack.defers[Len(uBack.defers)]
          IN /\ uGot' = [uGot EXCEPT !.steps = Append(@, f)]
             /\ uBack' = [uBack EXCEPT
                            !.defers = SubSeq(@, 1, Len(@) - 1),
                            !.mounted = IF f = "unmount" THEN FALSE ELSE @,
                            !.file = IF f = "remove" THEN "none" ELSE @]
             /\ UNCHANGED uPc
  /\ UNCHANGED <<uHdr, uWire>>
  /\ UNCHANGED sessionVars

\* fixTimesAndPerms on an entry the receiver has just made for the header,
\* and the comparison of the next session with nothing changed
fixTimesAndPermsCall ==
  /\ uPc = "perms"
  /\ LET made == TreeWith(NewEntry(uHdr.kind, Perm0700, uWire.data))
         fixed == fixTimesAndPerms(made, uHdr)
     IN uGot' = [ok |-> fixed.ok, entry |-> fixed.fs[uHdr.path],
                 again |-> Requested(fixed.fs, uHdr)]
  /\ uPc' = "fixed"
  /\ UNCHANGED <<uHdr, uWire, uBack>>
  /\ UNCHANGED sessionVars

\* ---------------------------------------------------- names on the wire

\* the working directory of the receiver, "/w", as its components
WorkDir == <<(<<119>>)>>

\* the components of a name, cut at each '/'
RECURSIVE Components(_, _)
Components(name, part) ==
  IF name = <<>> THEN <<part>>
  ELSE IF Head(name) = 47 THEN <<part>> \o Components(Tail(name), <<>>)
  ELSE Components(Tail(name), Append(part, Head(name)))

\* the directory the kernel is in after it has followed the components
RECURSIVE Followed(_, _)
Followed(dir, parts) ==
  IF parts = <<>> THEN dir
  ELSE IF Head(parts) \in {<<>>, <<46>>} THEN Followed(dir, Tail(parts))
  ELSE IF Head(parts) = <<46, 46>>
  THEN Followed(SubSeq(dir, 1, Len(dir) - 1), Tail(parts))
  ELSE Followed(Append(dir, Head(parts)), Tail(parts))

\* where a system call finds the name it is given: an absolute name from
\* the root, any other from the working directory
Resolved(name) ==
  IF name # <<>> /\ Head(name) = 47 THEN Followed(<<>>, Components(name, <<>>))
  ELSE Followed(WorkDir, Components(name, <<>>))

\* the name of a header is read by ReadPath and handed as it is to
\* os.Mkdir, for a directory, or to os.Link, for a regular file
receiveHeaderNamed ==
  /\ uPc = "name"
  /\ LET got == ReadPath(uWire, U32(Len(uWire)))
     IN uGot' = [ok |-> got.ok, path |-> got.path,
                 made |-> IF got.ok THEN <<Resolved(got.path)>> ELSE <<>>]
  /\ uPc' = "made"
  /\ UNCHANGED <<uHdr, uWire, uBack>>
  /\ UNCHANGED sessionVars

UnitNext ==
  \/ senderMainCall
  \/ receiveHeaderNamed
  \/ fixTimesAndPermsCall
  \/ transmitDirectoryCall
  \/ execJailedChecks
  \/ setupDir
  \/ placeBinary
  \/ chmodBinary
  \/ chdirRoot
  \/ mountBind
  \/ cmdRun
  \/ runDeferred
  \/ ioutilTempFile
  \/ CopyFileChunk
  \/ removeOldEntry
  \/ linkTempFile
  \/ fixLinkedFile
  \/ deferredRemove
  \/ handleFileListCall
  \/ receiveFullDataItemCall
  \/ sendItemHeadersCall
  \/ receiveFileMetadataCompare
  \/ marshallBinaryCall
  \/ unMarshallBinaryCall
  \/ receiveFileMetadataCall
  \/ receiveRegularFileFullDataCall

UnitSpec == UnitInit /\ [][UnitNext]_vars


\* ------------------------------------------------------------------ claims

\* the paths that carry an index, in the order of the walk
SendOrder == SelectSeq(Walk, LAMBDA p : sTree[p].kind \in {"regular", "symlink"})

\* what the stream must carry for the first k entries of a request list
RECURSIVE ExpectedItems(_, _)
ExpectedItems(list, k) ==
  IF k = 0 THEN <<>>
  ELSE LET p == SendOrder[list[k] + 1]
       IN ExpectedItems(list, k - 1)
          \o <<[t |-> "hdr", path |-> p]>>
          \o (IF Len(sTree[p].data) > 0
              THEN <<[t |-> "data", bytes |-> sTree[p].data]>> ELSE <<>>)

\* what the sender wrote during the replay, headers reduced to their path
ReplayTrace ==
  LET replayed == SelectSeq(sLog, LAMBDA l : l.phase = "replay")
  IN [i \in 1..Len(replayed) |->
        IF replayed[i].msg.t = "hdr"
        THEN [t |-> "hdr", path |-> replayed[i].msg.h.path]
        ELSE replayed[i].msg]

\* the paths of the items the receiver unpacked, in order
ItemTrace ==
  LET items == SelectSeq(rLog, LAMBDA l : l.ev = "item")
  IN [i \in 1..Len(items) |-> items[i].path]

SenderReplaying == sPc \in {"replay", "wait3", "wait3ext", "done"}
ReceiverUnpacking == rPc \in {"content", "delete", "done"}

\* C1: payload is written in the replay phase only; for the request list the
\* sender read it writes one header+payload item per entry, the j-th being the
\* item at send-list position list[j], in list order, and the receiver unpacks
\* the items in that order.
C1_SelectiveTransfer ==
  /\ \A i \in 1..Len(sLog) : sLog[i].msg.t = "data" => sLog[i].phase = "replay"
  /\ SenderReplaying =>
       /\ sReq = requestList
       /\ sPc # "replay" => sK = Len(sReq)
       /\ ReplayTrace = ExpectedItems(sReq, sK)
  /\ ReceiverUnpacking =>
       ItemTrace = [j \in 1..rK |-> SendOrder[requestList[j] + 1]]

\* a completed session in which the second of two indexed items alone was sent
C1_Witness ==
  /\ sPc = "done" /\ rPc = "done"
  /\ sReq = <<1>> /\ Len(SendOrder) = 2
  /\ ItemTrace = <<SendOrder[2]>>
  /\ \E i \in 1..Len(sLog) : sLog[i].msg.t = "data"


\* the sender's tree holds directories, regular files and symlinks only,
\* and the sender may read each of its files
SenderTreePlain ==
  \A p \in Paths :
    /\ sTree[p].kind \in {"none", "dir", "regular", "symlink"}
    /\ sTree[p].kind = "regular" => Readable(sTree[p])

ReceiverFailed == rPc \in {"failed", "reported"}

\* the sender waits to read and nothing has been written for it
SenderWaits ==
  sPc \in {"wait1", "wait1ext", "list", "wait3", "wait3ext"} /\ r2s = <<>>

\* the receiver waits to read and what it needs has not been written
ReceiverWaits ==
  \/ rPc \in {"new", "meta"} /\ s2r = <<>>
  \/ rPc = "content" /\ rK < Len(requestList) /\ ~ItemReady

\* C2: with a sender tree of directories, regular files and symlinks, and a
\* receiver that met no file system error, the sender never leaves Sync with an
\* error and the two endpoints never both wait to read, whatever the request
\* list: the session goes on until the sender and the receiver are done.
C2_Termination ==
  (SenderTreePlain /\ ~ReceiverFailed) =>
     /\ sPc # "error"
     /\ ~(SenderWaits /\ ReceiverWaits)

\* the two endpoints never both wait to read
C2_NeverBothBlocked == ~(SenderWaits /\ ReceiverWaits)


\* the order in which Sync goes through its phases
SyncOrder ==
  {<<"new", "walk">>, <<"walk", "wait1">>, <<"wait1", "wait1ext">>,
   <<"wait1ext", "list">>, <<"list", "replay">>, <<"replay", "wait3">>,
   <<"wait3", "wait3ext">>, <<"wait3ext", "done">>}

C3_Step ==
  /\ sPc' # sPc =>
       \/ sPc' = "error"
       \/ <<sPc, sPc'>> \in SyncOrder
       \/ sPc = "done" /\ sPc' = "new" /\ session' = session + 1
  /\ sPc = "error" => sPc' = "error" /\ sLog' = sLog /\ sBuf' = sBuf
  /\ (sPc \in {"wait1ext", "wait3ext"} /\ sCode # 0 /\ sPc' # sPc) => sPc' = "error"

\* C3: Sync goes through walk, first wait, request list and replay, final wait
\* in that order, a phase starts only when the one before it returned without
\* error, and a result header with a non-zero error code makes the waiting phase
\* fail: no later phase runs and nothing more is written.
C3_PhaseGating == [][C3_Step]_vars

\* the sender read a non-zero error code after the walk and replayed nothing
C3_Witness ==
  /\ sPc = "error" /\ sCode # 0
  /\ \E i \in 1..Len(sLog) : sLog[i].phase = "walk"
  /\ \A i \in 1..Len(sLog) : sLog[i].phase # "replay"


EventsOf(ev) == {i \in 1..Len(rLog) : rLog[i].ev = ev}

\* C4: the receiver emits the metadata ack only after the end-of-transfer
\* marker, with every header of the walk processed before it; the request list
\* comes right after the metadata ack; the content ack comes after one unpacked
\* item per entry of the request list; entries are removed only after the
\* content ack; no phase is skipped or repeated.
C4_ReceiverOrder ==
  /\ \A i \in EventsOf("ack1") :
       /\ i = Len(Walk) + 1
       /\ \A j \in 1..(i - 1) : rLog[j] = Event("hdr", Walk[j])
  /\ \A i \in EventsOf("list") : i > 1 /\ rLog[i - 1].ev = "ack1"
  /\ \A i \in EventsOf("item") \cup EventsOf("itemfail") :
       \E j \in EventsOf("list") : j < i /\ i <= j + Len(requestList)
  /\ \A i \in EventsOf("ack2") :
       /\ i = Len(Walk) + 2 + Len(requestList) + 1
       /\ \A j \in (Len(Walk) + 3)..(i - 1) : rLog[j].ev = "item"
  /\ \A i \in EventsOf("remove") : \E j \in EventsOf("ack2") : j < i
  /\ rPc \in {"request", "content", "delete", "done"} => EventsOf("ack1") # {}
  /\ rPc \in {"content", "delete", "done"} => EventsOf("list") # {}
  /\ rPc \in {"delete", "done"} => EventsOf("ack2") # {}

\* a receiver that went through every phase, unpacked an item and removed an entry
C4_Witness ==
  /\ rPc = "done"
  /\ Len(requestList) = 1
  /\ EventsOf("item") # {}
  /\ EventsOf("ack2") # {}
  /\ EventsOf("remove") # {}


SecondRun == session > 1 /\ drift = NoDrift
ListComputed == rPc \in {"request", "content", "delete", "done"}

\* C5: when a session completed and neither tree was changed afterwards, the
\* next session for the same tree schedules no index and completes: the
\* receiver does not fail and the sender does not leave Sync with an error.
C5_Idempotence ==
  SecondRun =>
    /\ requestList = <<>>
    /\ ~ReceiverFailed
    /\ sPc # "error"

\* without checksums in the headers the second request list is empty
C5_EmptyListWithoutCrc ==
  (SecondRun /\ crcUsage = FileCrcOff) => requestList = <<>>

\* with the checksum in the metadata headers only, files are requested again
C5_EmptyListWithMetadataCrc ==
  (SecondRun /\ crcUsage = FileCrcAtimeNsecMetadata) => requestList = <<>>


\* the receiver's entry at p is the sender's, as far as the protocol carries it
SameFile(p) ==
  /\ rFS[p].kind = "regular"
  /\ rFS[p].data = sTree[p].data
  /\ rFS[p].perm = sTree[p].perm
  /\ rFS[p].mtime = sTree[p].mtime
  /\ rFS[p].mnsec = sTree[p].mnsec

SameLink(p) == rFS[p].kind = "symlink" /\ rFS[p].data = sTree[p].data

SameDirMode(p) == rFS[p].kind = "dir" /\ rFS[p].perm = sTree[p].perm

SameDirTime(p) == rFS[p].mtime = sTree[p].mtime /\ rFS[p].mnsec = sTree[p].mnsec

\* the session went into an empty directory and the receiver is done
CleanSuccess ==
  /\ session = 1
  /\ \A p \in Paths : rTree0[p].kind = "none"
  /\ ~ignoreSymlinks
  /\ rPc = "done"

\* C6: after a successful session into an empty directory the receiver holds
\* exactly the sender's entries: each regular file with the sender's content,
\* permission bits and mtime, each directory with the sender's permission bits
\* and mtime, each symlink with the sender's target.
C6_CleanFidelity ==
  CleanSuccess =>
    \A p \in Paths :
      CASE sTree[p].kind = "none" -> rFS[p].kind = "none"
        [] sTree[p].kind = "regular" -> SameFile(p)
        [] sTree[p].kind = "symlink" -> SameLink(p)
        [] sTree[p].kind = "dir" -> SameDirMode(p) /\ SameDirTime(p)
        [] OTHER -> TRUE

\* the same without the directories' mtime
C6_FidelityButDirTimes ==
  CleanSuccess =>
    \A p \in Paths :
      CASE sTree[p].kind = "none" -> rFS[p].kind = "none"
        [] sTree[p].kind = "regular" -> SameFile(p)
        [] sTree[p].kind = "symlink" -> SameLink(p)
        [] sTree[p].kind = "dir" -> SameDirMode(p)
        [] OTHER -> TRUE

\* a file inside a directory and a symlink arrived in an empty directory
C6_Witness ==
  /\ CleanSuccess
  /\ sTree["r/a/x"].kind = "regular" /\ SameFile("r/a/x")
  /\ sTree["r/b"].kind = "symlink" /\ SameLink("r/b")


\* the index the walk gives to path p
IndexOf(p) == CHOOSE i \in 0..(Len(SendOrder) - 1) : SendOrder[i + 1] = p

\* when the session began, every entry but the one at path d was the sender's
InSyncBut(d) ==
  \A p \in Paths \ {d} :
    CASE sTree[p].kind = "none" -> rTree0[p].kind = "none"
      [] sTree[p].kind = "regular" ->
           /\ rTree0[p].kind = "regular"
           /\ rTree0[p].data = sTree[p].data
           /\ rTree0[p].perm = sTree[p].perm
           /\ rTree0[p].mtime = sTree[p].mtime
           /\ rTree0[p].mnsec = sTree[p].mnsec
      [] sTree[p].kind = "symlink" ->
           rTree0[p].kind = "symlink" /\ rTree0[p].data = sTree[p].data
      [] sTree[p].kind = "dir" -> rTree0[p].kind = "dir"
      [] OTHER -> TRUE

\* one regular file of a receiver in sync was changed before this session
Drifted ==
  /\ session > 1
  /\ drift.kind # "none"
  /\ sTree[drift.path].kind = "regular"
  /\ InSyncBut(drift.path)
  /\ ListComputed

\* C7: when exactly one regular file of a receiver in sync was changed (one
\* content byte, its mtime, its mode or its size) or removed, the request list
\* of the next session holds that file's index and no other.
C7_DriftDetection == Drifted => requestList = <<IndexOf(drift.path)>>


\* the paths some header of the sender names
Mentioned == {Walk[i] : i \in 1..Len(Walk)}

\* what was at the receiver when the session began and no header names
Stale == {p \in Paths : Exists(rTree0, p) /\ p \notin Mentioned}

RemovalsAfterAck ==
  \A i \in EventsOf("remove") : \E j \in EventsOf("ack2") : j < i

SenderDirsWritable ==
  \A d \in Paths : sTree[d].kind = "dir" => OwnerWritable(sTree[d].perm)

StaleOutLinks ==
  {p \in Stale : rTree0[p].kind = "symlink" /\ rTree0[p].data = OutTarget}

Crossing == "r/a"

FileBecomesDir ==
  rTree0[Crossing].kind = "regular" /\ sTree[Crossing].kind = "dir"

EmptyDirBecomesFile ==
  /\ rTree0[Crossing].kind = "dir" /\ ChildrenOf(rTree0, Crossing) = {}
  /\ \/ sTree[Crossing].kind = "regular"
     \/ sTree[Crossing].kind = "symlink" /\ ~ignoreSymlinks

DirBecomesFile ==
  /\ rTree0[Crossing].kind = "dir"
  /\ \/ sTree[Crossing].kind = "regular"
     \/ sTree[Crossing].kind = "symlink" /\ ~ignoreSymlinks

\* nothing but the change of type stands in the way of the session
Unhindered ==
  /\ SenderTreePlain
  /\ SenderDirsWritable
  /\ OwnerWritable(rTree0[Root].perm)

\* the path has the sender's type and nothing of the old entry is left
Reconciled ==
  /\ rFS[Crossing].kind = sTree[Crossing].kind
  /\ \A p \in Paths : IsUnder(p, Crossing) => rFS[p].kind = sTree[p].kind
  /\ sTree[Crossing].kind \in {"regular", "symlink"} =>
       rFS[Crossing].data = sTree[Crossing].data

\* C10: where the receiver has a regular file and the sender a directory, or
\* the receiver a directory, empty or not, and the sender a regular file or a
\* symlink, the receiver does not fail, and when it is done the path has the
\* sender's type with nothing of the old entry left.
C10_TypeTransitions ==
  ((FileBecomesDir \/ DirBecomesFile) /\ Unhindered) =>
     /\ ~ReceiverFailed
     /\ rPc = "done" => Reconciled

\* the same where the directory at the receiver is empty
C10_EmptyDirTransitions ==
  ((FileBecomesDir \/ EmptyDirBecomesFile) /\ Unhindered) =>
     /\ ~ReceiverFailed
     /\ rPc = "done" => Reconciled


\* the sender holds a read-only file in a read-only directory and nothing else
ReadOnlySource ==
  /\ sTree[Root].perm = Perm0555
  /\ sTree["r/a"].kind = "regular" /\ sTree["r/a"].perm = Perm0444
  /\ sTree["r/b"].kind = "none"

\* the destination lacks both, or holds a differing read-only file in a
\* read-only directory
ReadOnlyDestination ==
  \/ \A p \in Paths : rTree0[p].kind = "none"
  \/ /\ rTree0[Root].kind = "dir" /\ rTree0[Root].perm = Perm0555
     /\ rTree0["r/a"].kind = "regular" /\ rTree0["r/a"].perm = Perm0444
     /\ rTree0["r/a"].data # sTree["r/a"].data
     /\ rTree0["r/b"].kind = "none"

\* C11: a session whose sender holds a file of mode 0444 in a directory of
\* mode 0555 does not fail at the receiver, into a destination that lacks them
\* and into one that holds a differing 0444 file in a 0555 directory, and when
\* the receiver is done the file has the sender's content.
C11_ReadOnlyReplacement ==
  (session = 1 /\ ReadOnlySource /\ ReadOnlyDestination) =>
     /\ ~ReceiverFailed
     /\ rPc = "done" =>
          rFS["r/a"].kind = "regular" /\ rFS["r/a"].data = sTree["r/a"].data

\* a read-only file in a directory its owner may write to is replaced
C11_ReadOnlyFileInWritableDir ==
  (/\ session = 1
   /\ sTree[Root].perm = Perm0755
   /\ sTree["r/a"].kind = "regular" /\ sTree["r/a"].perm = Perm0444
   /\ sTree["r/b"].kind = "none"
   /\ rTree0[Root].kind = "dir" /\ rTree0[Root].perm = Perm0755
   /\ rTree0["r/a"].kind = "regular" /\ rTree0["r/a"].perm = Perm0444
   /\ rTree0["r/a"].data # sTree["r/a"].data
   /\ rTree0["r/b"].kind = "none") =>
     /\ ~ReceiverFailed
     /\ rPc = "done" =>
          rFS["r/a"].kind = "regular" /\ rFS["r/a"].data = sTree["r/a"].data

\* the case of C11_ReadOnlyFileInWritableDir is reached
C11_WritableDirReached ==
  /\ session = 1 /\ rPc = "done"
  /\ sTree[Root].perm = Perm0755 /\ sTree["r/a"].perm = Perm0444
  /\ rTree0["r/a"].kind = "regular" /\ rTree0["r/a"].perm = Perm0444
  /\ rTree0["r/a"].data # sTree["r/a"].data
  /\ rFS["r/a"].data = sTree["r/a"].data


\* the paths of the headers written in the walk so far, the marker left out
EmittedPaths ==
  LET walked == SelectSeq(sLog, LAMBDA l : l.phase = "walk" /\ l.msg.t = "hdr"
                                           /\ l.msg.h.nameLen # 0)
  IN [i \in 1..Len(walked) |-> walked[i].msg.h.path]

\* C12: at every point the send list holds the paths of the regular files and
\* symlinks whose header has been written so far, in that order, so that the
\* index of an item is its position among them counted from 0; a directory
\* or a named pipe never is in the list.
C12_SendList ==
  /\ sendList = SelectSeq(EmittedPaths,
                          LAMBDA p : sTree[p].kind \in {"regular", "symlink"})
  /\ \A i \in 1..Len(sendList) : sTree[sendList[i]].kind \notin {"dir", "pipe"}

\* the walk of a tree with a directory, a file in it and a pipe is over
C12_Witness ==
  /\ sPc = "wait1"
  /\ sTree["r/b"].kind = "pipe"
  /\ sendList = <<"r/a/x">>
  /\ Len(EmittedPaths) = 6


\* everything the sender wrote in the walk, the marker included
WalkLog == SelectSeq(sLog, LAMBDA l : l.phase = "walk")

\* where in the walk the header of p was written
Positions(p) == {i \in 1..Len(EmittedPaths) : EmittedPaths[i] = p}

\* the sender has left transmitDirectory without an error
WalkOver == sPc \in {"wait1", "wait1ext", "list", "replay", "wait3", "wait3ext", "done"}

\* a symlink that osWalk leaves out under Options.IgnoreSymlinks
Skipped(p) == ignoreSymlinks /\ sTree[p].kind = "symlink"

\* the two headers of directory d bracket the headers of exactly its descendants
Brackets(d) ==
  /\ Cardinality(Positions(d)) = 2
  /\ LET first == CHOOSE i \in Positions(d) : \A j \in Positions(d) : i <= j
         second == CHOOSE i \in Positions(d) : \A j \in Positions(d) : j <= i
     IN \A q \in Paths \ {d} :
          /\ IsUnder(q, d) => \A i \in Positions(q) : first < i /\ i < second
          /\ ~IsUnder(q, d) => \A i \in Positions(q) : i < first \/ second < i

\* the 32 zero bytes are written once, after the second header of the root,
\* and nothing follows them in the walk
MarkerLast ==
  /\ Len(WalkLog) = Len(EmittedPaths) + 1
  /\ \A i \in 1..Len(WalkLog) :
       (WalkLog[i].msg.t = "hdr" /\ WalkLog[i].msg.h.nameLen = 0) <=> i = Len(WalkLog)
  /\ Len(EmittedPaths) >= 2
  /\ EmittedPaths[Len(EmittedPaths)] = Root

\* C13 as stated: after the walk every directory of the tree has two headers
\* that bracket exactly its descendants, every other entry of the tree has
\* one header, and the zero block is written once, last, after the second
\* header of the root.
C13_WalkShape ==
  WalkOver =>
    /\ \A p \in Paths :
         /\ sTree[p].kind = "dir" => Brackets(p)
         /\ sTree[p].kind \notin {"dir", "none"} => Cardinality(Positions(p)) = 1
         /\ sTree[p].kind = "none" => Positions(p) = {}
    /\ MarkerLast

\* C13, amended: the same, a symlink having no header at all when symlinks
\* are ignored.
C13_WalkShapeButSkipped ==
  WalkOver =>
    /\ \A p \in Paths :
         /\ sTree[p].kind = "dir" => Brackets(p)
         /\ (sTree[p].kind \notin {"dir", "none"} /\ ~Skipped(p))
              => Cardinality(Positions(p)) = 1
         /\ (sTree[p].kind = "none" \/ Skipped(p)) => Positions(p) = {}
    /\ MarkerLast

\* the walk of a tree with a directory in the root, a file in it and a
\* skipped symlink next to it is over
C13_Witness ==
  /\ WalkOver
  /\ sTree["r/a"].kind = "dir" /\ sTree["r/a/x"].kind = "regular"
  /\ Skipped("r/b")
  /\ EmittedPaths = <<"r", "r/a", "r/a/x", "r/a", "r">>


\* a root that holds one regular file and one symlink, nothing ignored
FileAndLink ==
  /\ sTree["r/a"].kind = "regular" /\ Len(sTree["r/a"].data) > 0
  /\ sTree["r/b"].kind = "symlink"
  /\ ~ignoreSymlinks

\* C14: for a directory with one regular file and one symlink the sender
\* writes in its walk, before the zero block, the header of the directory,
\* the header of the file, the file's bytes, the header of the symlink, the
\* link target and the header of the directory again.
C14_InlinePayload ==
  (WalkOver /\ FileAndLink) =>
    [i \in 1..Len(WalkLog) |-> WalkLog[i].msg]
      = << HdrMsg(MetadataHeader(Root)),
           HdrMsg(MetadataHeader("r/a")), DataMsg(sTree["r/a"].data),
           HdrMsg(MetadataHeader("r/b")), DataMsg(sTree["r/b"].data),
           HdrMsg(MetadataHeader(Root)),
           HdrMsg(EotHeader) >>

\* what the walk of that tree does write: the four headers and the zero block
C14_HeadersOnly ==
  (WalkOver /\ FileAndLink) =>
    [i \in 1..Len(WalkLog) |-> WalkLog[i].msg]
      = << HdrMsg(MetadataHeader(Root)), HdrMsg(MetadataHeader("r/a")),
           HdrMsg(MetadataHeader("r/b")), HdrMsg(MetadataHeader(Root)),
           HdrMsg(EotHeader) >>

C14_WalkOfFileAndLink == WalkOver /\ FileAndLink


\* an ack in the receiver's output has a result extension right behind it
ExtensionFollows(i) ==
  (r2s[i].t = "result" /\ r2s[i].code = 0)
    => i < Len(r2s) /\ r2s[i + 1].t = "ext"

\* C15: every ack the receiver writes, the metadata ack and the content ack,
\* is followed at once by a result extension, also when the phase processed
\* no item.
C15_ExtensionFollowsAck == \A i \in 1..Len(r2s) : ExtensionFollows(i)

\* what holds: the extension is there whenever the phase processed an item
C15_ExtensionAfterItems ==
  ~(rPc \in {"delete", "done"} /\ requestList = <<>>)
    => \A i \in 1..Len(r2s) : ExtensionFollows(i)

\* the content ack of a session with an empty request list has been written
C15_EmptyListAcked ==
  /\ rPc \in {"delete", "done"}
  /\ requestList = <<>>
  /\ rLog # <<>>


\* the sender's pending read of a result header comes to an end in this step
WaitEnds == sPc \in {"wait1", "wait3"} /\ sPc' # sPc

\* C16: when the receiver has failed in the metadata phase or the content
\* phase, it writes a result header with a non-zero error code before its
\* session ends, so the sender's pending wait ends by reading that code.
C16_ErrorReported ==
  [][(rPc = "failed" /\ WaitEnds)
       => (sPc' \in {"wait1ext", "wait3ext"} /\ sCode' # 0)]_vars

\* every result header written by ReceiveMetadata and ReceiveFullData
\* carries the code 0
C16_OnlyZeroFromPhases ==
  [][(rPc \in {"meta", "content"} /\ Len(r2s') > Len(r2s))
       => \A i \in (Len(r2s) + 1)..Len(r2s') :
            r2s'[i].t = "result" => r2s'[i].code = 0]_vars

\* the receiver failed on a header of the metadata phase, wrote nothing, and
\* the sender's wait met the end of the stream
C16_FailedUnreported ==
  /\ rPc = "failed" /\ sPc = "error"
  /\ sPos = Len(Walk) /\ sReq = <<>> /\ sCode = 0
  /\ r2s = <<>>
  /\ sTree["r/b"].kind = "pipe"


\* the events of the headers the receiver has taken in its metadata phase
HeaderEvents == SelectSeq(rLog, LAMBDA e : e.ev = "hdr")

\* the receiver has read the header of an entry that is no directory,
\* symlink or regular file
UnknownSeen ==
  \E i \in 1..Len(HeaderEvents) :
    sTree[HeaderEvents[i].path].kind \notin {"dir", "symlink", "regular"}

\* how many of the headers read so far were of a regular file or a symlink
IndexedSeen ==
  Len(SelectSeq(HeaderEvents,
                LAMBDA e : sTree[e.path].kind \in {"symlink", "regular"}))

\* C17: a metadata header of a type other than directory, symlink and
\* regular makes the receiver abort its metadata phase: no index is
\* scheduled for it, the index counter is not advanced for it, and no
\* metadata ack is written.
C17_UnknownTypeRejected ==
  UnknownSeen =>
    /\ rPc \in {"failed", "reported"}
    /\ index = IndexedSeen
    /\ \A i \in 1..Len(requestList) : requestList[i] < IndexedSeen
    /\ \A i \in 1..Len(rLog) : rLog[i].ev \notin {"ack1", "list"}
    /\ \A i \in 1..Len(r2s) : ~(r2s[i].t = "result" /\ r2s[i].code = 0)
    /\ sReq = <<>>
    /\ sPc \notin {"list", "replay", "wait3", "wait3ext", "done"}

\* the receiver has stopped at a named pipe that came after an indexed file
C17_Witness ==
  /\ UnknownSeen
  /\ rPc = "failed"
  /\ sTree["r/a"].kind = "regular"
  /\ index = 1
  /\ requestList = <<0>>


\* the NameLen field of the header a stream begins with
StreamNameLen == GetLimbs(SubSeq(uWire, 1, 4))

\* unMarshallBinary has been called on a stream that begins with a header
\* announcing a non-empty name
Decoded == uPc \in {"reencode", "reencoded", "rejected"} /\ StreamNameLen # U32(0)

\* the byte at the end of the announced name is there and is zero
EndsInNul ==
  /\ StreamNameLen[2] = 0
  /\ Len(uWire) >= 32 + StreamNameLen[1]
  /\ uWire[32 + StreamNameLen[1]] = 0

\* C18: decoding a file header accepts every name length from 1 to 16384
\* whose last byte is zero, and rejects every name length above 16384
\* before a byte of the name is read.
C18_PathLengthBound ==
  Decoded =>
    /\ (StreamNameLen[2] = 0 /\ StreamNameLen[1] <= MaxPathLength /\ EndsInNul)
         => uGot.ok
    /\ (StreamNameLen[2] > 0 \/ StreamNameLen[1] > MaxPathLength)
         => ~uGot.ok /\ uGot.read = 32

\* what the decoder does: the largest name length it accepts is 16383
C18_BoundOneLess ==
  Decoded =>
    /\ (StreamNameLen[2] = 0 /\ StreamNameLen[1] <= MaxPathLength - 1 /\ EndsInNul)
         => uGot.ok /\ uGot.read = 32 + StreamNameLen[1]
    /\ (StreamNameLen[2] > 0 \/ StreamNameLen[1] > MaxPathLength - 1)
         => ~uGot.ok /\ uGot.read = 32

\* a header announcing 16384 bytes of name that end in a zero byte has been
\* decoded
C18_LongestNameDecoded ==
  Decoded /\ StreamNameLen = U32(MaxPathLength) /\ EndsInNul


\* the stream handed to unMarshallBinary is a 32-byte block whose NameLen is 0
ZeroBlock ==
  uPc \in {"reencode", "reencoded", "rejected"} /\ StreamNameLen = U32(0)

\* a zero block is decoded, and the header decoded from it is encoded to the
\* same 32 bytes
ZeroBlockRoundTrip ==
  /\ ZeroBlock => uPc # "rejected"
  /\ (ZeroBlock /\ uPc = "reencoded") => uBack = uWire

\* C20: a file header with a non-empty path and NameLen = len(path) + 1 is
\* decoded from its encoding to an equal header, all seven fields and the
\* path; a 32-byte block whose NameLen is 0 is encoded from its decoding to
\* the same 32 bytes.
C20_RoundTrip ==
  /\ uPc = "parsed" => uGot.ok /\ uGot.hdr = uHdr
  /\ ZeroBlockRoundTrip

\* what holds: the round trip of headers whose path has at most 16382 bytes,
\* and that of the zero blocks
C20_RoundTripOfShorterPaths ==
  /\ (uPc = "parsed" /\ Len(uHdr.path) <= MaxPathLength - 2)
       => uGot.ok /\ uGot.hdr = uHdr /\ uGot.read = Len(uWire)
  /\ ZeroBlockRoundTrip

\* the encoding of a header with a path of 16383 bytes has been decoded
C20_LongestPathParsed ==
  uPc = "parsed" /\ Len(uHdr.path) = MaxPathLength - 1

\* a zero block has been decoded and encoded again
C20_ZeroBlockReencoded == ZeroBlock /\ uPc = "reencoded"


\* one of the two receiving functions has been called on a header
SizesChecked == uPc \in {"checked", "received"}

\* C19: in the metadata phase and in the content phase a regular-file header
\* with a file length of exactly 10^12 passes the size check, and one with a
\* file length of 10^12 + 1 or more is turned down with an error; in the
\* content phase it is turned down before a byte of payload is read and
\* before a file is created.
C19_FileLengthBound ==
  SizesChecked =>
    /\ MaxTransfer = <<4096, 54437, 232, 0>>
    /\ uHdr.Data.FileLen \in LensWithin => uGot.err # "too large"
    /\ uHdr.Data.FileLen \in LensAbove
         => uGot.err = "too large" /\ uGot.read = 0 /\ ~uGot.created
            /\ uGot.r.totalBytes = U64(0) /\ uGot.r.requestList = <<>>
    /\ (uPc = "received" /\ uHdr.Data.FileLen = MaxTransfer)
         => uGot.created /\ uGot.read = Len(uWire) /\ uGot.r.totalBytes = MaxTransfer

\* the content phase has turned down a header of 10^12 + 1 bytes while
\* payload was waiting in the stream
C19_Witness ==
  /\ uPc = "received"
  /\ uHdr.Data.FileLen = U64Add(MaxTransfer, U64(1))
  /\ uHdr.Data.FileLen = <<4097, 54437, 232, 0>>
  /\ uWire # <<>>
  /\ uGot.err = "too large"


\* is str among the arguments
Given(str) == \E k \in 2..Len(uWire) : uWire[k] = str

\* where the last -v stands among the arguments
LastVerbosity ==
  CHOOSE k \in 2..Len(uWire) :
    uWire[k] = "-v" /\ \A j \in (k + 1)..Len(uWire) : uWire[j] # "-v"

\* the sender's main has got as far as Sync on a command line of options
\* followed by the directory
SenderStarted ==
  uPc = "started" /\ Len(uWire) >= 2 /\ uWire[Len(uWire)] = "dir"

\* C21: -n makes the session run without compression, -i makes the walk
\* skip symlinks, -v N sets the verbosity to N, and the directory that is
\* synchronised is the argument after the options.
C21_OptionsTakeEffect ==
  SenderStarted =>
    /\ uGot.exit = 0
    /\ uGot.opts.Compression = (IF Given("-n") THEN CompressionOff ELSE CompressionSnappy)
    /\ uGot.opts.IgnoreSymlinks = Given("-i")
    /\ Given("-v") => uGot.opts.Verbosity = ParseUint(uWire[LastVerbosity + 1])
    /\ ~Given("-v") => uGot.opts.Verbosity = DefaultVerbosity
    /\ uGot.dir = "dir"

\* what main does: the Sender always gets the default options, and the
\* directory is the first argument, option or not
C21_DefaultsWhateverIsGiven ==
  SenderStarted =>
    /\ uGot.exit = 0
    /\ uGot.opts = DefaultOptions
    /\ uGot.dir = uWire[2]

\* main has run on a command line with -n and -i before the directory
C21_OptionsGiven ==
  SenderStarted /\ Given("-n") /\ Given("-i") /\ uGot.exit = 0


\* the headers of regular files and symlinks the receiver has processed
IndexedEvents ==
  SelectSeq(HeaderEvents, LAMBDA e : sTree[e.path].kind \in {"symlink", "regular"})

\* the receiver has read the end-of-transfer marker
MarkerRead == rPc \in {"request", "content", "delete", "done"}

\* C22: the k-th header of a regular file or symlink the receiver processes
\* is that of the k-th path of the sender's send list, and the receiver's
\* index counter is the number of such headers processed, so that each is
\* processed with the counter at its position in the send list; when the
\* marker is read the counter is the length of the send list.
C22_IndexAgreement ==
  /\ index = Len(IndexedEvents)
  /\ Len(IndexedEvents) <= Len(sendList)
  /\ \A k \in 1..Len(IndexedEvents) : sendList[k] = IndexedEvents[k].path
  /\ MarkerRead => index = Len(sendList)

\* the marker has been read after a directory, a file in it and a symlink
\* next to it
C22_Witness ==
  /\ MarkerRead
  /\ sTree["r/a"].kind = "dir" /\ sTree["r/b"].kind = "symlink"
  /\ index = 2 /\ sendList = <<"r/a/x", "r/b">>

\* the same with symlinks ignored
C22_WitnessIgnoring ==
  /\ MarkerRead /\ ignoreSymlinks
  /\ sTree["r/a"].kind = "dir" /\ sTree["r/b"].kind = "symlink"
  /\ index = 1 /\ sendList = <<"r/a/x">>


\* the request list records on their way to the sender
ListRecords == SelectSeq(r2s, LAMBDA m : m.t = "list")

\* C23: the receiver's request list is strictly increasing at every point,
\* each of its entries is smaller than the index counter, and the record
\* written in the request phase is this list preceded by its length.
C23_RequestListWellFormed ==
  /\ \A i, j \in 1..Len(requestList) : i < j => requestList[i] < requestList[j]
  /\ \A i \in 1..Len(requestList) : requestList[i] < index
  /\ \A k \in 1..Len(ListRecords) :
       ListRecords[k].count = Len(requestList) /\ ListRecords[k].list = requestList
  /\ sPc \in {"replay", "wait3", "wait3ext", "done"} => sReq = requestList

\* a record of two requests is on its way to the sender
C23_Witness ==
  /\ rPc = "content"
  /\ requestList = <<0, 1>>
  /\ Len(ListRecords) = 1


\* the directories whose first header has been processed and whose second
\* has not
OpenDirs ==
  {p \in Paths :
     Len(SelectSeq(HeaderEvents, LAMBDA e : e.path = p)) % 2 = 1
     /\ sTree[p].kind = "dir"}

\* the stack is the chain of the open directories, the root first
StackIsOpenChain ==
  /\ Len(dirStack) = Cardinality(OpenDirs)
  /\ \A i \in 1..Len(dirStack) : dirStack[i] \in OpenDirs
  /\ \A i, j \in 1..Len(dirStack) : i < j => IsUnder(dirStack[j], dirStack[i])
  /\ dirStack # <<>> => dirStack[1] = Root
  /\ MarkerRead => dirStack = <<>>

\* the receiver processes the header of a directory in this step
DirHeaderStep ==
  /\ rPc = "meta" /\ s2r # <<>> /\ Head(s2r).t = "hdr" /\ isDir(Head(s2r).h)
  /\ s2r' = Tail(s2r)

\* push when the stack is empty or its top is another path, pop otherwise
PushOrPop ==
  LET path == Head(s2r).h.path
  IN IF dirStack = <<>> \/ dirStack[Len(dirStack)] # path
     THEN dirStack' = dirStack \o <<path>>
     ELSE dirStack' = SubSeq(dirStack, 1, Len(dirStack) - 1)

\* C24: a directory header is a first visit (push) exactly when the stack is
\* empty or its top differs from the header's path, and a second visit (pop)
\* exactly when the top is that path; for the headers of the sender's walk
\* the stack is always the chain of open directories, the root first, and
\* it is empty when the marker has been read.
C24_DirectoryStack == [](StackIsOpenChain) /\ [][DirHeaderStep => PushOrPop]_vars

\* the receiver is inside a directory inside the root
C24_Witness ==
  /\ rPc = "meta"
  /\ dirStack = <<"r", "r/a">>
  /\ Len(HeaderEvents) = 3


\* the i-th thing the receiver did was to process the second header of
\* directory d, which applies the sender's mode and times to d
FinalModeApplied(i, d) ==
  /\ rLog[i] = Event("hdr", d) /\ sTree[d].kind = "dir"
  /\ \E h \in 1..(i - 1) : rLog[h] = Event("hdr", d)

\* C25: in a successful session no regular file or symlink inside a
\* directory is created or replaced after the sender's mode and times have
\* been applied to that directory.
C25_ContentBeforeFinalMode ==
  (rPc = "done" /\ sPc = "done") =>
    \A i, j \in 1..Len(rLog), d \in Paths :
      (FinalModeApplied(i, d) /\ i < j /\ rLog[j].ev = "item")
        => ~IsUnder(rLog[j].path, d)

\* what the receiver does: every item is written after the final mode of
\* every directory has been applied
C25_ContentAfterAllFinalModes ==
  \A i, j \in 1..Len(rLog) :
    (rLog[i].ev = "hdr" /\ rLog[j].ev = "item") => i < j

\* a session has ended well in which a file was written into the root
C25_ItemWritten ==
  /\ rPc = "done" /\ sPc = "done"
  /\ \E j \in 1..Len(rLog) : rLog[j] = Event("item", "r/a")


\* the directory header processed in this step is a first visit
FirstVisit == dirStack = <<>> \/ dirStack[Len(dirStack)] # Head(s2r).h.path

\* the first visit of a path that is no directory at the receiver leaves a
\* new directory of mode 0700 there, with the times of its creation
CreatedPrivate ==
  LET path == Head(s2r).h.path
  IN (FirstVisit /\ rFS[path].kind # "dir" /\ rPc' = "meta")
       => rFS'[path] = NewEntry("dir", Perm0700, <<>>)

\* the first visit of a directory that is there changes nothing
FirstVisitKeeps ==
  (FirstVisit /\ rFS[Head(s2r).h.path].kind = "dir") => rFS' = rFS

\* the second visit applies the mode and the times of the header
SecondVisitApplies ==
  LET hdr == Head(s2r).h
  IN (~FirstVisit /\ rPc' = "meta")
       => /\ rFS'[hdr.path].perm = hdr.perm
          /\ rFS'[hdr.path].mtime = hdr.mtime /\ rFS'[hdr.path].mnsec = hdr.mnsec
          /\ rFS'[hdr.path].atime = hdr.atime /\ rFS'[hdr.path].ansec = hdr.ansec

\* C26: the first visit of a directory path that is missing at the receiver,
\* or is there as something else (which is removed first), creates the
\* directory with mode 0700 and applies neither the mode nor the times of
\* the header; these are applied by the second visit of the path only.
C26_FirstVisitMode ==
  [][DirHeaderStep => (CreatedPrivate /\ FirstVisitKeeps /\ SecondVisitApplies)]_vars

\* a regular file at the receiver has just been replaced by a directory of
\* mode 0700 although the header says 0755
C26_Witness ==
  /\ rPc = "meta"
  /\ rTree0["r/a"].kind = "regular"
  /\ rLog # <<>> /\ rLog[Len(rLog)] = Event("hdr", "r/a")
  /\ dirStack = <<"r", "r/a">>
  /\ rFS["r/a"] = NewEntry("dir", Perm0700, <<>>)
  /\ sTree["r/a"].perm = Perm0755 /\ sTree["r/a"].mtime # NowSec

\* a second visit has applied the mode 0555 of the header to the root
C26_WitnessSecondVisit ==
  /\ rPc = "meta"
  /\ rTree0["r"].kind = "none"
  /\ Len(rLog) >= 2 /\ rLog[Len(rLog)] = Event("hdr", "r")
  /\ rFS["r"].perm = Perm0555 /\ rFS["r"].mtime = sTree["r"].mtime


\* the local file compared is the sender's in name, mode, size and
\* modification time, and is not the sender's in access time
OnlyAtimeDiffers ==
  /\ uPc = "compared"
  /\ PathLen(uHdr.path) + 1 = uHdr.nameLen
  /\ uWire.kind = uHdr.kind /\ uWire.perm = uHdr.perm /\ uWire.special = uHdr.special
  /\ Len(uWire.data) = uHdr.fileLen
  /\ uWire.mtime = uHdr.mtime /\ uWire.mnsec = uHdr.mnsec
  /\ (uWire.atime # uHdr.atime \/ uWire.ansec # uHdr.ansec)

\* C27: a regular file of the receiver that equals the sender's in name,
\* mode, size, modification time and content and differs in access time is
\* not put on the request list.
C27_AtimeNotCompared == OnlyAtimeDiffers => ~uGot.requested

\* what the receiver does: such a file is always requested, although the
\* Diff of types.go would report no difference for it
C27_AtimeCompared == OnlyAtimeDiffers => (uGot.requested /\ uGot.diff = {})

\* a file with another access time only has been compared
C27_TwinCompared == OnlyAtimeDiffers /\ uWire.atime = uHdr.atime + 1


\* the sender reads, or is about to read, a result from the receiver
ResultWaits == {"wait1", "wait1ext", "wait3", "wait3ext"}

\* this step brings the sender to one of its two result waits
StartsWaiting == sPc' \in {"wait1", "wait3"} /\ sPc \notin {"wait1", "wait3"}

\* the messages this step has written
WrittenNow == [i \in 1..(Len(sLog') - Len(sLog)) |-> sLog'[Len(sLog) + i].msg]

\* all that was held back and all that this step wrote is on the transport
AllPushed == sBuf' = <<>> /\ s2r' = s2r \o sBuf \o WrittenNow

MetadataSent == uPc = "sent" /\ uHdr.usage # FileCrcOff /\ uGot.metadata # <<>>

\* C29: when the CRC mode is not off, the metadata header of a regular file
\* carries the CRC-32 of the file's content in atime_nsec, and the metadata
\* header of a directory or of a symlink carries 0 there.
C29_CrcSlot ==
  MetadataSent =>
    /\ uWire.kind = "regular" => uGot.metadata[1].ansec = CrcTable[uWire.data]
    /\ uWire.kind \in {"dir", "symlink"} => uGot.metadata[1].ansec = 0

\* what the sender writes: the checksum for a regular file, 0 for a symlink,
\* and the true nanoseconds of the access time for a directory
C29_CrcSlotButDirectories ==
  MetadataSent =>
    /\ uWire.kind = "regular" => uGot.metadata[1].ansec = CrcTable[uWire.data]
    /\ uWire.kind = "symlink" => uGot.metadata[1].ansec = 0
    /\ uWire.kind = "dir" => uGot.metadata[1].ansec = uWire.ansec

\* the header of a directory whose access time has nanoseconds was written
C29_DirectoryWritten == MetadataSent /\ uWire.kind = "dir" /\ uWire.ansec # 0

\* both headers of a regular file have been written
BothSent ==
  /\ uPc = "sent" /\ uWire.kind = "regular"
  /\ uGot.metadata # <<>> /\ uGot.content # <<>>

\* what atime_nsec carries in the two phases: the checksum or the true
\* nanoseconds
Carries(inMetadata, inContent) ==
  /\ uGot.metadata[1].ansec =
       IF inMetadata = "crc" THEN CrcTable[uWire.data] ELSE uWire.ansec
  /\ uGot.content[1].ansec =
       IF inContent = "crc" THEN CrcTable[uWire.data] ELSE uWire.ansec

\* C30: in mode off atime_nsec carries true nanoseconds in both phases; in
\* the mode of wire value 1 it carries the CRC in the metadata phase and
\* true nanoseconds in the content phase; in the mode of wire value 2, the
\* default, it carries the CRC in both phases.
C30_CrcModesByPhase ==
  BothSent =>
    /\ uHdr.usage = FileCrcOff => Carries("nsec", "nsec")
    /\ uHdr.usage = 1 => Carries("crc", "nsec")
    /\ uHdr.usage = 2 => Carries("crc", "crc")

\* C30, amended: in mode off atime_nsec carries true nanoseconds in both
\* phases; in the mode of wire value 1 it carries the CRC in both phases; in
\* the mode of wire value 2, the default, it carries the CRC in the metadata
\* phase and true nanoseconds in the content phase.
C30_CrcModesByPhaseSwapped ==
  BothSent =>
    /\ uHdr.usage = FileCrcOff => Carries("nsec", "nsec")
    /\ uHdr.usage = 1 => Carries("crc", "crc")
    /\ uHdr.usage = 2 => Carries("crc", "nsec")
    /\ DefaultOptions.CrcUsage = 2

\* both headers of a file were written in the default mode, and its checksum
\* is not the nanoseconds of its access time
C30_Witness ==
  /\ BothSent /\ uHdr.usage = DefaultOptions.CrcUsage
  /\ uWire.data # <<>> /\ CrcTable[uWire.data] # uWire.ansec


\* the headers of regular files the sender has written in the content phase
ContentHeaders ==
  {sLog[i].msg.h : i \in {j \in 1..Len(sLog) :
     /\ sLog[j].phase = "replay" /\ sLog[j].msg.t = "hdr"
     /\ isRegular(sLog[j].msg.h)}}

\* the last thing the receiver did was to unpack the regular file at p
JustUnpacked(p) ==
  /\ rLog # <<>> /\ rLog[Len(rLog)] = Event("item", p)
  /\ sTree[p].kind = "regular"

\* C31: in the default CRC mode the header the sender writes for a regular
\* file in the content phase carries the file's real access time, seconds
\* and nanoseconds, and the receiver sets the times of the file it unpacks
\* from these real values.
C31_RealNanosecondsInContent ==
  crcUsage = DefaultOptions.CrcUsage =>
    /\ \A h \in ContentHeaders :
         h.atime = sTree[h.path].atime /\ h.ansec = sTree[h.path].ansec
    /\ \A p \in Paths :
         JustUnpacked(p) =>
           /\ rFS[p].atime = sTree[p].atime /\ rFS[p].ansec = sTree[p].ansec
           /\ rFS[p].mtime = sTree[p].mtime /\ rFS[p].mnsec = sTree[p].mnsec

\* in the default mode the receiver has unpacked a file whose checksum is
\* not the nanoseconds of its access time
C31_Witness ==
  /\ crcUsage = DefaultOptions.CrcUsage
  /\ JustUnpacked("r/a")
  /\ CrcFile(sTree["r/a"]) # sTree["r/a"].ansec
  /\ \E h \in ContentHeaders : h.path = "r/a"


\* the header handed to the loop of the content phase is neither that of a
\* regular file nor that of a symlink
OtherTypeUnpacked == uPc = "unpacked" /\ ~isRegular(uHdr) /\ ~isSymlink(uHdr)

\* C32: when the header read for a requested index is neither a regular
\* file nor a symlink, the receiver aborts the content phase with an error.
C32_UnknownTypeRejectedInContent == OtherTypeUnpacked => ~uGot.ok

\* what the receiver does: the header is taken without an error and nothing
\* is written for it
C32_UnknownTypeSkipped ==
  OtherTypeUnpacked => (uGot.ok /\ uGot.fs = TreeWith(NoEntry))

\* the header of a directory was handed to the loop of the content phase
C32_DirectoryUnpacked == OtherTypeUnpacked /\ isDir(uHdr)


\* the positions of the request record that hold no index of the send list
BadPositions == {i \in 1..uWire.count : uWire.list[i] >= Len(uHdr)}

\* the first of them
FirstBad == CHOOSE i \in BadPositions : \A j \in BadPositions : i <= j

\* C33: a request list whose count exceeds the length of the send list is
\* rejected before any index is read; an index greater than or equal to the
\* length of the send list is rejected before anything is written for it; in
\* both cases phase 2 fails, and the send list is never indexed out of range.
C33_RequestValidation ==
  uPc = "replayed" =>
    /\ uWire.count > Len(uHdr) =>
         (~uGot.ok /\ uGot.read = 0 /\ uGot.sent = <<>>)
    /\ (uWire.count <= Len(uHdr) /\ BadPositions # {}) =>
         (~uGot.ok /\ uGot.sent = SubSeq(uWire.list, 1, FirstBad - 1))
    /\ (uWire.count <= Len(uHdr) /\ BadPositions = {}) =>
         (uGot.ok /\ uGot.sent = uWire.list)
    /\ \A i \in 1..Len(uGot.sent) : uGot.sent[i] + 1 \in 1..Len(uHdr)

\* a record was refused at its second index, the length of the send list,
\* after the item of its first index was written
C33_Witness ==
  /\ uPc = "replayed" /\ uHdr = <<"r/a", "r/b">>
  /\ uWire.count = 2 /\ uWire.list = <<1, 2>>
  /\ ~uGot.ok /\ uGot.sent = <<1>>

\* a record was refused for its count
C33_WitnessCount ==
  uPc = "replayed" /\ uWire.count = Len(uHdr) + 1 /\ ~uGot.ok /\ uGot.read = 0


\* the steps of receiveRegularFileFullData
FileSteps == {"file", "copy", "remove", "link", "fix", "cleanup", "returned"}

\* what lies at the target path now
TargetEntry ==
  IF uPc = "file" THEN uHdr.tree[uHdr.hdr.path] ELSE uGot.fs[uHdr.hdr.path]

\* a regular file with all the file_len bytes that were sent for it
Complete(e) ==
  /\ e.kind = "regular"
  /\ Len(uHdr.sent) >= uHdr.hdr.fileLen
  /\ e.data = SubSeq(uHdr.sent, 1, uHdr.hdr.fileLen)

\* C34: at every point of the processing of a regular file of the content
\* phase, and so after an abort at any point, the target path holds the old
\* entry, or no entry, or the complete new content of file_len bytes.
C34_NoPartialFile ==
  uPc \in FileSteps =>
    \/ TargetEntry = uHdr.tree[uHdr.hdr.path]
    \/ TargetEntry = NoEntry
    \/ Complete(TargetEntry)

\* the input ended after one byte of two: the tempfile holds a part of the
\* payload and the target still holds the old file
C34_Witness ==
  /\ uPc = "cleanup" /\ uGot.err = "copy"
  /\ uHdr.hdr.fileLen = 2 /\ uBack.data = <<1>>
  /\ TargetEntry.kind = "regular" /\ TargetEntry = uHdr.tree[uHdr.hdr.path]

\* the old file has been replaced by the complete new one
C34_WitnessReplaced ==
  /\ uPc = "returned" /\ uGot.err = "none" /\ uHdr.hdr.fileLen = 2
  /\ uHdr.tree[uHdr.hdr.path].kind = "regular" /\ TargetEntry.data = <<1, 2>>

\* the processing of the item has ended after a tempfile was created
ItemEnded == uPc = "returned" /\ uGot.err \notin {"size", "tempfile"}

\* C35: whenever the processing of one regular file of the content phase
\* ends, after success or after a failure of the copy, of the removal of the
\* old entry, of the link or of the setting of times and mode, the tempfile
\* created for it is no longer there.
C35_TempfileCleanup == ItemEnded => ~uBack.there

\* the processing has ended at each of the failures, and with success
C35_Witness == ItemEnded /\ uGot.err = "link" /\ ~uBack.there
C35_WitnessCopy == ItemEnded /\ uGot.err = "copy" /\ uBack.data # <<>>
C35_WitnessRemove == ItemEnded /\ uGot.err = "remove"
C35_WitnessFix == ItemEnded /\ uGot.err = "fix"
C35_WitnessDone == ItemEnded /\ uGot.err = "none"


\* the steps of the launcher after its checks
LauncherSteps ==
  {"setup", "place", "chmod", "chdir", "mount", "run", "unwind", "exited"}

\* the launcher has started the receiver child
ChildStarted == uPc \in LauncherSteps /\ uBack.child # <<>>

\* what must have succeeded, in this order, before the child is started
BeforeChild ==
  <<"euid", "user", "alias", "binary", "dir", "dir", "placed", "chmod", "chdir",
    "mount", "child">>

\* C36: the launcher starts the child only after the effective uid was found
\* to be 0, the account to exist with a uid that is not root's, the binary to
\* be a regular file, both jail directories to exist owned by the account,
\* the binary to be linked or copied into the jail and set to mode 0755, and
\* the bind mount to be in place, in this order; the child runs chroot'ed to
\* the jail with the uid and gid of the account, never as root.
C36_LauncherGating ==
  ChildStarted =>
    /\ SubSeq(uGot.steps, 1, Len(BeforeChild)) = BeforeChild
    /\ uHdr.euid = 0 /\ uHdr.user.exists /\ uHdr.user.uid # 0
    /\ uHdr.binary = "regular"
    /\ Len(uBack.dirs) = 2
    /\ \A i \in 1..2 : uBack.dirs[i].owner = uHdr.user.uid
    /\ uBack.mode = Perm0755
    /\ uBack.child[1] =
         [chroot |-> "jail", uid |-> uHdr.user.uid, gid |-> uHdr.user.gid]
    /\ uBack.child[1].uid # 0
    /\ uGot.steps[Len(uGot.steps)] = "child" =>
         (uBack.mounted /\ uBack.file \in {"linked", "copied"})

\* the child runs with the uid of the account and the group of root
C36_Witness ==
  /\ ChildStarted /\ uPc = "unwind" /\ uBack.mounted
  /\ uBack.child[1].uid = 1000 /\ uBack.child[1].gid = 0

\* the launcher has returned after it began to place the binary
LauncherReturned ==
  /\ uPc = "exited"
  /\ Len(uGot.steps) >= 6 /\ SubSeq(uGot.steps, 1, 6) = SubSeq(BeforeChild, 1, 6)
  /\ uGot.err \notin {"mkdir", "chown"} /\ Len(uBack.dirs) = 2

\* the unmount comes before the removal of the binary
UnmountFirst ==
  \A i, j \in 1..Len(uGot.steps) :
    (uGot.steps[i] = "unmount" /\ uGot.steps[j] = "remove") => i < j

\* C37: on every return path of the launcher after it began to place the
\* binary in the jail, no file it created is left in the jail, the bind mount
\* if made is unmounted, and the unmount comes before the removal.
C37_LauncherCleanup ==
  LauncherReturned => (uBack.file = "none" /\ ~uBack.mounted /\ UnmountFirst)

\* what the launcher does: the same on every return path but that of a copy
\* that failed after the destination was created, which leaves the file
C37_CleanupButFailedCopy ==
  LauncherReturned =>
    /\ ~uBack.mounted /\ UnmountFirst
    /\ uBack.file # "none" => (uBack.file = "partial" /\ uGot.err = "copy")

\* the launcher has returned after the child ran, the mount undone and the
\* binary removed
C37_ChildRunCleaned ==
  /\ LauncherReturned /\ uBack.child # <<>> /\ uBack.file = "none"
  /\ uGot.steps[Len(uGot.steps)] = "remove"


\* phase 0 is over and a write to the transport has failed in it
TransportFailed == uPc = "transmitted" /\ uGot.w.lost

\* C38: if a write of a metadata header to the output, or the flush of the
\* transport behind the compressor, fails in phase 0, Sync returns a phase 0
\* error and the sender does not go on to wait for the metadata ack.
C38_WriteFailuresReported ==
  TransportFailed => (uGot.err = "phase 0 send error" /\ ~uGot.waits)

\* what the sender does: without the compressor every failure is reported,
\* the one of a header write by the write of the zero block or the Flush
\* after it; with the compressor a failure of the last flush is not
C38_ReportedWithoutCompressor ==
  /\ (TransportFailed /\ ~uHdr.snappy) => (uGot.err # "none" /\ ~uGot.waits)
  /\ (TransportFailed /\ uHdr.snappy /\ uGot.waits) =>
       (uGot.w.wire = <<>> /\ uGot.w.bufErr)

\* a header write has failed on the transport and phase 0 has ended with an
\* error
C38_HeaderWriteFailed ==
  TransportFailed /\ ~uHdr.snappy /\ uHdr.headers = 3 /\ ~uGot.waits


\* the mode and the times of the header have been applied to an entry whose
\* sender has the setuid, the setgid or the sticky bit set
SpecialFixed == uPc = "fixed" /\ uGot.ok /\ uHdr.special # {}

\* C39: for a sender file or directory with the setuid, setgid or sticky bit
\* set the receiver's entry has the same mode & 07777, these three bits
\* included, and a following session with nothing changed does not request
\* the file again.
C39_SpecialBitsSurvive ==
  SpecialFixed =>
    /\ uGot.entry.perm = uWire.perm /\ uGot.entry.special = uWire.special
    /\ uWire.kind = "regular" => ~uGot.again

\* what the receiver does: the nine permission bits are the sender's, the
\* three special bits are never set, and a file that has one of them at the
\* sender is requested again; a file that has none is not
C39_SpecialBitsDropped ==
  uPc = "fixed" =>
    /\ uGot.ok /\ uGot.entry.perm = uWire.perm /\ uGot.entry.special = {}
    /\ uWire.kind = "regular" => (uGot.again <=> uWire.special # {})

\* the mode of a setuid file has been applied
C39_SetuidFileFixed ==
  SpecialFixed /\ uWire.kind = "regular" /\ uWire.special = {"setuid"}


\* a place beneath the working directory
Beneath(place) ==
  Len(place) > Len(WorkDir) /\ SubSeq(place, 1, Len(WorkDir)) = WorkDir

\* the name has a component ".."
HasDotDot(name) ==
  \E i \in 1..Len(Components(name, <<>>)) : Components(name, <<>>)[i] = <<46, 46>>

\* C40: for every header a sender can put on the wire, a name that is
\* absolute or has ".." components included, the entry the receiver creates
\* or replaces for it lies beneath the receiver's working directory.
C40_WritesStayInside ==
  uPc = "made" => \A i \in 1..Len(uGot.made) : Beneath(uGot.made[i])

\* what the receiver does: the entry lies beneath the working directory when
\* the name is relative and has no ".." component, and the name is never
\* turned down for being absolute or for having one
C40_InsideForPlainNames ==
  uPc = "made" =>
    /\ uGot.ok /\ uGot.path \in WireNames
    /\ (Head(uGot.path) # 47 /\ ~HasDotDot(uGot.path)) => Beneath(uGot.made[1])

\* the header named "../o" has made an entry next to the working directory
C40_DotDotFollowed ==
  /\ uPc = "made" /\ uGot.path = <<46, 46, 47, 111>>
  /\ uGot.made = <<(<<(<<111>>)>>)>>

=============================================================================
